---- MODULE Spec2Model ----
(***************************************************************************)
(* Model of the weather-mcp-system client: the tool-calling orchestration  *)
(* loop (client/orchestrator.py), the backend client (client/llm.py), the  *)
(* tool executor (client/mcp.py), the command-line session loop            *)
(* (client/main.py) and the tool provider the client talks to              *)
(* (weather_mcp/server.py, weather_mcp/tools/weather.py).                  *)
(*                                                                         *)
(* Text is a sequence of atoms.  An atom is either one punctuation or      *)
(* white-space character (the members of Punct) or a maximal run of other  *)
(* characters (a "word").  JSON and Python conversions are computed on     *)
(* that representation.                                                    *)
(***************************************************************************)
EXTENDS Integers, Sequences, FiniteSets, TLC

----------------------------------------------------------------------------
(* Text *)

Q  == "\""
BS == "\\"
SQ == "'"
SP == " "
NL == "\n"

Punct == {Q, BS, SQ, SP, NL, "{", "}", "[", "]", ":", ","}

IsWord(a) == a \notin Punct

\* Python str + str : adjacent runs of ordinary characters form one word
Cat(a, b) ==
    IF a = <<>> THEN b
    ELSE IF b = <<>> THEN a
    ELSE IF IsWord(a[Len(a)]) /\ IsWord(b[1])
         THEN SubSeq(a, 1, Len(a) - 1) \o <<a[Len(a)] \o b[1]>> \o Tail(b)
         ELSE a \o b

Cat3(a, b, c) == Cat(Cat(a, b), c)

Whitespace == {SP, NL}

\* str.strip()
RECURSIVE LStrip(_)
LStrip(s) == IF s # <<>> /\ s[1] \in Whitespace THEN LStrip(Tail(s)) ELSE s

RECURSIVE RStrip(_)
RStrip(s) ==
    IF s # <<>> /\ s[Len(s)] \in Whitespace THEN RStrip(SubSeq(s, 1, Len(s) - 1))
    ELSE s

Strip(s) == RStrip(LStrip(s))

\* str.lower(), on the words that occur
LowerWord(a) ==
    CASE a = "EXIT"    -> "exit"
      [] a = "Quit"    -> "quit"
      [] a = "Q"       -> "q"
      [] a = "London?" -> "london?"
      [] OTHER         -> a

Lower(s) == [i \in DOMAIN s |-> LowerWord(s[i])]

IsPrefix(s, t) == Len(s) <= Len(t) /\ SubSeq(t, 1, Len(s)) = s

----------------------------------------------------------------------------
(* Python values that cross the tool boundary (json.loads results, None, str) *)

PyNone    == [t |-> "none"]
PyBool(b) == [t |-> "bool", v |-> b]
PyNum(w)  == [t |-> "num", v |-> w]
PyStr(s)  == [t |-> "str", v |-> s]
PyList(l) == [t |-> "list", v |-> l]
PyDict(d) == [t |-> "dict", v |-> d]

\* dict[k] = v : a new key goes last, an existing key keeps its position
DictSet(d, k, v) ==
    IF \E i \in 1..Len(d) : d[i].k = k
    THEN [i \in 1..Len(d) |-> IF d[i].k = k THEN [k |-> k, v |-> v] ELSE d[i]]
    ELSE Append(d, [k |-> k, v |-> v])

\* number literals the model reads; each is its own canonical repr
NumWords == {"0", "1", "2", "18.5", "17.9", "72", "1012", "3.6", "40"}

----------------------------------------------------------------------------
(* json.dumps with the default separators and ensure_ascii *)

RECURSIVE EscapeStr(_)
EscapeStr(s) ==
    IF s = <<>> THEN <<>>
    ELSE (IF Head(s) \in {Q, BS} THEN <<BS, Head(s)>> ELSE <<Head(s)>>)
         \o EscapeStr(Tail(s))

JsonStr(s) == <<Q>> \o EscapeStr(s) \o <<Q>>

RECURSIVE JsonDumps(_)
RECURSIVE DumpItems(_)
RECURSIVE DumpPairs(_)

DumpItems(l) ==
    IF l = <<>> THEN <<>>
    ELSE IF Len(l) = 1 THEN JsonDumps(l[1])
    ELSE JsonDumps(l[1]) \o <<",", SP>> \o DumpItems(Tail(l))

DumpPairs(d) ==
    IF d = <<>> THEN <<>>
    ELSE LET one == JsonStr(d[1].k) \o <<":", SP>> \o JsonDumps(d[1].v)
         IN  IF Len(d) = 1 THEN one
             ELSE one \o <<",", SP>> \o DumpPairs(Tail(d))

JsonDumps(x) ==
    CASE x.t = "none" -> <<"null">>
      [] x.t = "bool" -> IF x.v THEN <<"true">> ELSE <<"false">>
      [] x.t = "num"  -> <<x.v>>
      [] x.t = "str"  -> JsonStr(x.v)
      [] x.t = "list" -> <<"[">> \o DumpItems(x.v) \o <<"]">>
      [] x.t = "dict" -> <<"{">> \o DumpPairs(x.v) \o <<"}">>

----------------------------------------------------------------------------
(* json.loads : a recursive-descent parser.  Every Parse* operator takes    *)
(* the text and a position and returns [ok, v, i] with i the next position. *)

ParseFail == [ok |-> FALSE, v |-> PyNone, i |-> 0]
ParseOk(v, i) == [ok |-> TRUE, v |-> v, i |-> i]

RECURSIVE SkipWs(_, _)
SkipWs(s, i) ==
    IF i <= Len(s) /\ s[i] \in {SP, NL} THEN SkipWs(s, i + 1) ELSE i

\* the body of a string, after the opening quote; acc is the decoded text
RECURSIVE ParseStrBody(_, _, _)
ParseStrBody(s, i, acc) ==
    IF i > Len(s) THEN ParseFail
    ELSE IF s[i] = Q THEN ParseOk(acc, i + 1)
    ELSE IF s[i] = NL THEN ParseFail
    ELSE IF s[i] = BS
         THEN IF i + 1 <= Len(s) /\ s[i + 1] \in {Q, BS}
              THEN ParseStrBody(s, i + 2, Cat(acc, <<s[i + 1]>>))
              ELSE ParseFail
    ELSE ParseStrBody(s, i + 1, Cat(acc, <<s[i]>>))

RECURSIVE ParseValue(_, _)
RECURSIVE ParseItems(_, _, _)
RECURSIVE ParsePairs(_, _, _)

\* after "[" or after a ",": one value, then "," or "]"
ParseItems(s, i, acc) ==
    LET r == ParseValue(s, SkipWs(s, i))
    IN  IF ~r.ok THEN ParseFail
        ELSE LET j == SkipWs(s, r.i)
             IN  IF j > Len(s) THEN ParseFail
                 ELSE IF s[j] = "]" THEN ParseOk(PyList(Append(acc, r.v)), j + 1)
                 ELSE IF s[j] = "," THEN ParseItems(s, j + 1, Append(acc, r.v))
                 ELSE ParseFail

\* after "{" or after a ",": "key" : value, then "," or "}"
ParsePairs(s, i, acc) ==
    LET j == SkipWs(s, i)
    IN  IF j > Len(s) \/ s[j] # Q THEN ParseFail
        ELSE LET k == ParseStrBody(s, j + 1, <<>>)
             IN  IF ~k.ok THEN ParseFail
                 ELSE LET c == SkipWs(s, k.i)
                      IN  IF c > Len(s) \/ s[c] # ":" THEN ParseFail
                          ELSE LET r == ParseValue(s, SkipWs(s, c + 1))
                               IN  IF ~r.ok THEN ParseFail
                                   ELSE LET e == SkipWs(s, r.i)
                                            d == DictSet(acc, k.v, r.v)
                                        IN  IF e > Len(s) THEN ParseFail
                                            ELSE IF s[e] = "}" THEN ParseOk(PyDict(d), e + 1)
                                            ELSE IF s[e] = "," THEN ParsePairs(s, e + 1, d)
                                            ELSE ParseFail

ParseValue(s, i) ==
    IF i > Len(s) THEN ParseFail
    ELSE IF s[i] = Q
         THEN LET r == ParseStrBody(s, i + 1, <<>>)
              IN  IF r.ok THEN ParseOk(PyStr(r.v), r.i) ELSE ParseFail
    ELSE IF s[i] = "{"
         THEN LET j == SkipWs(s, i + 1)
              IN  IF j <= Len(s) /\ s[j] = "}" THEN ParseOk(PyDict(<<>>), j + 1)
                  ELSE ParsePairs(s, i + 1, <<>>)
    ELSE IF s[i] = "["
         THEN LET j == SkipWs(s, i + 1)
              IN  IF j <= Len(s) /\ s[j] = "]" THEN ParseOk(PyList(<<>>), j + 1)
                  ELSE ParseItems(s, i + 1, <<>>)
    ELSE IF s[i] = "null" THEN ParseOk(PyNone, i + 1)
    ELSE IF s[i] = "true" THEN ParseOk(PyBool(TRUE), i + 1)
    ELSE IF s[i] = "false" THEN ParseOk(PyBool(FALSE), i + 1)
    ELSE IF s[i] \in NumWords THEN ParseOk(PyNum(s[i]), i + 1)
    ELSE ParseFail

\* json.loads(text): [ok |-> FALSE] stands for json.JSONDecodeError
JsonLoads(s) ==
    LET r == ParseValue(s, SkipWs(s, 1))
    IN  IF r.ok /\ SkipWs(s, r.i) = Len(s) + 1
        THEN [ok |-> TRUE, v |-> r.v]
        ELSE [ok |-> FALSE, v |-> PyNone]

----------------------------------------------------------------------------
(* Python str() and repr() of the values above *)

HasAtom(s, a) == \E i \in 1..Len(s) : s[i] = a

RECURSIVE EscapeRepr(_, _)
EscapeRepr(s, quote) ==
    IF s = <<>> THEN <<>>
    ELSE (IF Head(s) \in {quote, BS} THEN <<BS, Head(s)>> ELSE <<Head(s)>>)
         \o EscapeRepr(Tail(s), quote)

\* repr(str): single quotes, unless the text has a ' and no "
ReprStr(s) ==
    LET quote == IF HasAtom(s, SQ) /\ ~HasAtom(s, Q) THEN Q ELSE SQ
    IN  <<quote>> \o EscapeRepr(s, quote) \o <<quote>>

RECURSIVE PyRepr(_)
RECURSIVE ReprItems(_)
RECURSIVE ReprPairs(_)

ReprItems(l) ==
    IF l = <<>> THEN <<>>
    ELSE IF Len(l) = 1 THEN PyRepr(l[1])
    ELSE PyRepr(l[1]) \o <<",", SP>> \o ReprItems(Tail(l))

ReprPairs(d) ==
    IF d = <<>> THEN <<>>
    ELSE LET one == ReprStr(d[1].k) \o <<":", SP>> \o PyRepr(d[1].v)
         IN  IF Len(d) = 1 THEN one
             ELSE one \o <<",", SP>> \o ReprPairs(Tail(d))

PyRepr(x) ==
    CASE x.t = "none" -> <<"None">>
      [] x.t = "bool" -> IF x.v THEN <<"True">> ELSE <<"False">>
      [] x.t = "num"  -> <<x.v>>
      [] x.t = "str"  -> ReprStr(x.v)
      [] x.t = "list" -> <<"[">> \o ReprItems(x.v) \o <<"]">>
      [] x.t = "dict" -> <<"{">> \o ReprPairs(x.v) \o <<"}">>

\* str(x): the text itself for a str, the repr for everything else
PyStrOf(x) == IF x.t = "str" THEN x.v ELSE PyRepr(x)

\* Python truthiness, as in "if not city"
Truthy(x) ==
    CASE x.t = "none" -> FALSE
      [] x.t = "bool" -> x.v
      [] x.t = "num"  -> x.v # "0"
      [] x.t \in {"str", "list", "dict"} -> x.v # <<>>

\* dict.get(key) with None as the default
DictGet(d, key) ==
    IF \E i \in 1..Len(d.v) : d.v[i].k = key
    THEN d.v[CHOOSE i \in 1..Len(d.v) : d.v[i].k = key].v
    ELSE PyNone

----------------------------------------------------------------------------
(* The tool provider: weather_mcp *)

WeatherToolName == <<"get_current_weather">>

\* WeatherService.get_current_weather: the outcomes the weather API can
\* produce for a location; "ok" returns WeatherData, the others raise
WeatherKinds == {"ok", "notfound"}

WeatherData ==
    PyDict(<< [k |-> <<"city">>,        v |-> PyStr(<<"London">>)],
              [k |-> <<"country">>,     v |-> PyStr(<<"GB">>)],
              [k |-> <<"temperature">>, v |-> PyNum("18.5")],
              [k |-> <<"feels_like">>,  v |-> PyNum("17.9")],
              [k |-> <<"humidity">>,    v |-> PyNum("72")],
              [k |-> <<"pressure">>,    v |-> PyNum("1012")],
              [k |-> <<"description">>, v |-> PyStr(<<"light", SP, "rain">>)],
              [k |-> <<"wind_speed">>,  v |-> PyNum("3.6")],
              [k |-> <<"clouds">>,      v |-> PyNum("40")] >>)

\* location = f"{city},{country}" if country else city
Location(city, country) ==
    IF Truthy(country) THEN Cat3(PyStrOf(city), <<",">>, PyStrOf(country))
    ELSE PyStrOf(city)

\* the message of the RuntimeError get_current_weather raises
WeatherErrorMsg(kind, city, country) ==
    IF kind = "notfound"
    THEN Cat3(<<"City", SP, SQ>>, Location(city, country),
              <<SQ, SP, "not", SP, "found.", SP, "Please", SP, "check", SP,
                "the", SP, "city", SP, "name", SP, "and", SP, "country", SP,
                "code.">>)
    ELSE <<"Weather", SP, "service", SP, "request", SP, "timed", SP, "out.",
           SP, "Please", SP, "try", SP, "again.">>

\* model_dump_json(indent=2) of a flat model
RECURSIVE DumpPairsIndent(_)
DumpPairsIndent(d) ==
    IF d = <<>> THEN <<>>
    ELSE LET one == <<NL, SP, SP>> \o JsonStr(d[1].k) \o <<":", SP>> \o JsonDumps(d[1].v)
         IN  IF Len(d) = 1 THEN one \o <<NL>>
             ELSE one \o <<",">> \o DumpPairsIndent(Tail(d))

ModelDumpJson(x) == <<"{">> \o DumpPairsIndent(x.v) \o <<"}">>

TextContent(text) == [type |-> "text", text |-> text]

\* tools/weather.py handle_get_current_weather: never raises
handle_get_current_weather(kind, city, country) ==
    IF kind = "ok"
    THEN << TextContent(ModelDumpJson(WeatherData)) >>
    ELSE LET error_response ==
                 PyDict(<< [k |-> <<"error">>,   v |-> PyStr(WeatherErrorMsg(kind, city, country))],
                           [k |-> <<"city">>,    v |-> city],
                           [k |-> <<"country">>, v |-> country] >>)
         IN  << TextContent(PyStrOf(error_response)) >>

\* server.py call_tool handler
ServerCallTool(name, arguments, kind) ==
    IF name = WeatherToolName
    THEN LET city    == DictGet(arguments, <<"city">>)
             country == DictGet(arguments, <<"country">>)
         IN  IF ~Truthy(city)
             THEN << TextContent(<<"{", Q, "error", Q, ":", SP, Q, "Missing", SP,
                                   "required", SP, "parameter", ":", SP, "city",
                                   Q, "}">>) >>
             ELSE handle_get_current_weather(kind, city, country)
    ELSE << TextContent(Cat3(<<"{", Q, "error", Q, ":", SP, Q, "Unknown", SP,
                               "tool", ":", SP>>, name, <<Q, "}">>)) >>

----------------------------------------------------------------------------
(* The tool executor: client/mcp.py *)

NoSession == "None"

Raised(msg)   == [raised |-> TRUE, msg |-> msg]
Returned(val) == [raised |-> FALSE, v |-> val]

\* what session.call_tool can do: raise (the channel to the provider broke),
\* or deliver the provider's content list
TransportErrors == { <<"Invalid", SP, "frame", SP, Q, BS, "x00", Q>> }

NotConnectedMsg == <<"MCP", SP, "client", SP, "not", SP, "connected">>

\* f"Tool '{tool_name}' execution failed: {e}"
ToolFailedMsg(tool_name, e) ==
    Cat(Cat3(<<"Tool", SP, SQ>>, tool_name,
             <<SQ, SP, "execution", SP, "failed", ":", SP>>), e)

\* MCPCallTool, were it to return the error object instead of raising
MCPCallToolReturnsError(sess, tool_name, reply) ==
    IF sess = NoSession
    THEN Returned(PyDict(<<[k |-> <<"error">>, v |-> PyStr(NotConnectedMsg)]>>))
    ELSE IF reply.raise
    THEN Returned(PyDict(<<[k |-> <<"error">>,
                            v |-> PyStr(ToolFailedMsg(tool_name, reply.msg))]>>))
    ELSE IF reply.content # <<>>
         THEN LET content_item == reply.content[1]
              IN  IF "text" \in DOMAIN content_item
                  THEN LET parsed == JsonLoads(content_item.text)
                       IN  IF parsed.ok THEN Returned(parsed.v)
                           ELSE Returned(PyStr(content_item.text))
                  ELSE Returned(PyStr(content_item.repr))
    ELSE Returned(PyNone)

\* MCPCallTool, were the text of the first item returned without parsing it
MCPCallToolRawText(sess, tool_name, reply) ==
    IF sess = NoSession THEN Raised(NotConnectedMsg)
    ELSE IF reply.raise THEN Raised(ToolFailedMsg(tool_name, reply.msg))
    ELSE IF reply.content # <<>>
         THEN LET content_item == reply.content[1]
              IN  IF "text" \in DOMAIN content_item
                  THEN Returned(PyStr(content_item.text))
                  ELSE Returned(PyStr(content_item.repr))
    ELSE Returned(PyNone)

\* MCPClient.call_tool.  reply is [raise |-> TRUE, msg] or [raise |-> FALSE, content]
MCPCallTool(sess, tool_name, reply) ==
    IF sess = NoSession THEN Raised(NotConnectedMsg)
    ELSE IF reply.raise THEN Raised(ToolFailedMsg(tool_name, reply.msg))
    ELSE IF reply.content # <<>>
         THEN LET content_item == reply.content[1]
              IN  IF "text" \in DOMAIN content_item
                  THEN LET parsed == JsonLoads(content_item.text)
                       IN  IF parsed.ok THEN Returned(parsed.v)
                           ELSE Returned(PyStr(content_item.text))
                  ELSE Returned(PyStr(content_item.repr))
    ELSE Returned(PyNone)

----------------------------------------------------------------------------
(* The backend client: client/llm.py *)

base_url == <<"http", ":", "//localhost", ":", "11434">>
model    == <<"qwen2.5", ":", "7b">>

\* the ways the POST to /api/chat can fail
ChatFailKinds == {"connect", "timeout", "missing_model", "http_error", "unexpected"}

\* bodies of non-2xx responses and texts of unexpected exceptions
BackendTexts == { <<"internal", SP, "server", SP, "error">> }

\* the message of the RuntimeError that OllamaClient.chat raises
ChatErrorMsg(kind, text) ==
    CASE kind = "connect" ->
           Cat3(<<"Cannot", SP, "connect", SP, "to", SP, "Ollama", SP, "at", SP>>,
                base_url,
                <<".", NL, "Please", SP, "ensure", SP, "Ollama", SP, "is", SP,
                  "running", ":", NL, SP, SP, "ollama", SP, "serve">>)
      [] kind = "timeout" ->
           <<"Ollama", SP, "request", SP, "timed", SP, "out.", SP, "The", SP,
             "model", SP, "might", SP, "be", SP, "too", SP, "large", SP, "or",
             SP, "the", SP, "system", SP, "is", SP, "busy.">>
      [] kind = "missing_model" ->
           Cat3(Cat3(<<"Model", SP, SQ>>, model,
                     <<SQ, SP, "not", SP, "found", SP, "in", SP, "Ollama.", NL,
                       "Please", SP, "pull", SP, "the", SP, "model", SP, "first",
                       ":", NL, SP, SP, "ollama", SP, "pull", SP>>),
                model, <<>>)
      [] kind = "http_error" ->
           Cat(<<"Ollama", SP, "API", SP, "error", ":", SP>>, text)
      [] kind = "unexpected" ->
           Cat(<<"Unexpected", SP, "error", SP, "communicating", SP, "with", SP,
                 "Ollama", ":", SP>>, text)

\* the request body chat() builds; "tools" is set only for a non-empty list
NoTools == "None"

ChatPayload(messages, tools_arg) ==
    IF tools_arg # NoTools /\ tools_arg # <<>>
    THEN [model |-> model, messages |-> messages, stream |-> FALSE, tools |-> tools_arg]
    ELSE [model |-> model, messages |-> messages, stream |-> FALSE]

\* convert_mcp_tools_to_ollama_format, were it to keep one entry per tool name
RECURSIVE ConvertKeepingLastOfEachName(_)
ConvertKeepingLastOfEachName(mcp_tools) ==
    IF mcp_tools = <<>> THEN <<>>
    ELSE IF \E i \in 2..Len(mcp_tools) : mcp_tools[i].name = mcp_tools[1].name
    THEN ConvertKeepingLastOfEachName(Tail(mcp_tools))
    ELSE << [type |-> "function",
             function |-> [name        |-> mcp_tools[1].name,
                           description |-> mcp_tools[1].description,
                           parameters  |-> mcp_tools[1].inputSchema]] >>
         \o ConvertKeepingLastOfEachName(Tail(mcp_tools))

RECURSIVE convert_mcp_tools_to_ollama_format(_)
convert_mcp_tools_to_ollama_format(mcp_tools) ==
    IF mcp_tools = <<>> THEN <<>>
    ELSE << [type |-> "function",
             function |-> [name        |-> mcp_tools[1].name,
                           description |-> mcp_tools[1].description,
                           parameters  |-> mcp_tools[1].inputSchema]] >>
         \o convert_mcp_tools_to_ollama_format(Tail(mcp_tools))

\* tools/weather.py get_weather_tool, as MCPClient.list_tools returns it
WeatherTool ==
    [name |-> WeatherToolName,
     description |-> <<"Get", SP, "the", SP, "current", SP, "weather", SP, "for",
                       SP, "a", SP, "specified", SP, "city.", SP, "Returns", SP,
                       "temperature", ",", SP, "humidity", ",", SP, "conditions",
                       ",", SP, "and", SP, "more.">>,
     inputSchema |->
        PyDict(<< [k |-> <<"type">>, v |-> PyStr(<<"object">>)],
                  [k |-> <<"properties">>, v |->
                      PyDict(<< [k |-> <<"city">>, v |->
                                   PyDict(<<[k |-> <<"type">>, v |-> PyStr(<<"string">>)],
                                            [k |-> <<"description">>, v |->
                                               PyStr(<<"The", SP, "city", SP, "name", SP,
                                                       "(e.g.", ",", SP, SQ, "London", SQ, ",",
                                                       SP, SQ, "San", SP, "Francisco", SQ, ")">>)]>>)],
                                [k |-> <<"country">>, v |->
                                   PyDict(<<[k |-> <<"type">>, v |-> PyStr(<<"string">>)],
                                            [k |-> <<"description">>, v |->
                                               PyStr(<<"Optional", SP, "ISO", SP, "3166", SP,
                                                       "country", SP, "code", SP, "(e.g.", ",",
                                                       SP, SQ, "US", SQ, ",", SP, SQ, "GB", SQ,
                                                       ",", SP, SQ, "FR", SQ, ")">>)]>>)] >>)],
                  [k |-> <<"required">>, v |-> PyList(<<PyStr(<<"city">>)>>)] >>)]

----------------------------------------------------------------------------
(* Bounds of the model and the inputs it draws *)

MaxQueries == 2     \* queries per session
MaxBatch   == 2     \* tool calls in one freely chosen backend response
MaxVaried  == 2     \* tool calls a "varied" backend requests in a session

Utterances == { <<"weather", SP, "in", SP, "London?">> }

ToolCall(name, arguments) ==
    [function |-> [name |-> name, arguments |-> arguments]]

WeatherCall ==
    ToolCall(WeatherToolName, PyDict(<<[k |-> <<"city">>, v |-> PyStr(<<"London">>)]>>))
NoCityCall  == ToolCall(WeatherToolName, PyDict(<<>>))
UnknownCall ==
    ToolCall(<<"get_forecast">>, PyDict(<<[k |-> <<"city">>, v |-> PyStr(<<"London">>)]>>))

Calls == {WeatherCall, NoCityCall, UnknownCall}

SeqsUpTo(S, n) == UNION { [1..k -> S] : k \in 1..n }
SeqsUpToFrom0(S, n) == UNION { [1..k -> S] : k \in 0..n }

MaxTools == 2       \* descriptors a provider lists

\* a second descriptor, of a provider with more than one tool
ForecastTool ==
    [name |-> <<"get_forecast">>,
     description |-> <<"Get", SP, "the", SP, "forecast.">>,
     inputSchema |-> PyDict(<< [k |-> <<"type">>, v |-> PyStr(<<"object">>)] >>)]

Descriptors == { WeatherTool, ForecastTool }

\* a content item that is not text: str() of it is the repr of the model
ImageContent ==
    [type |-> "image",
     repr |-> <<"type=", SQ, "image", SQ, SP, "data=", SQ, "aGk=", SQ, SP,
                "mimeType=", SQ, "image/png", SQ>>]

\* the content lists a provider can answer a call with
ContentShapes ==
    { <<>>,
      << TextContent(<<>>) >>,
      << TextContent(<<"None">>) >>,
      << TextContent(<<"null">>) >>,
      << TextContent(<<"hello">>) >>,
      << TextContent(<<"{", Q, "a", Q, ":", "1", "}">>) >>,
      << TextContent(<<"[", "1", ",", SP, "2", "]">>) >>,
      << TextContent(<<Q, "hello", Q>>) >>,
      << TextContent(<<"1">>) >>,
      << TextContent(<<"true">>) >>,
      << TextContent(<<"{", Q, "a", Q, ":", "1">>), TextContent(<<"hello">>) >>,
      << ImageContent >> }

Batches    == SeqsUpTo(Calls, MaxBatch)
PlainBatch == <<WeatherCall>>

\* responses of the backend that carry no tool call
PlainFinal == [message |-> [role |-> "assistant", content |-> <<"Light", SP, "rain.">>]]

FinalResponses ==
    { PlainFinal,
      [message |-> [role |-> "assistant", content |-> <<>>, tool_calls |-> <<>>]],
      [message |-> [role |-> "assistant"]],
      [done |-> TRUE] }

ToolResponse(batch) ==
    [message |-> [role |-> "assistant", content |-> <<>>, tool_calls |-> batch]]

\* dict.get(key, default) on a record
Get(d, key, default) == IF key \in DOMAIN d THEN d[key] ELSE default

EmptyDict == <<>>

----------------------------------------------------------------------------
(* The orchestrator: client/orchestrator.py *)

max_iterations == 5

ApologyMsg ==
    <<"I", SP, "apologize", ",", SP, "but", SP, "I", SP, "couldn", SQ, "t", SP,
      "complete", SP, "your", SP, "request", SP, "after", SP, "multiple", SP,
      "attempts.">>

\* the message of the RuntimeError process_query raises when chat() fails
OllamaDownMsg ==
    <<"Could", SP, "not", SP, "connect", SP, "to", SP, "Ollama.", SP, "Please",
      SP, "ensure", SP, "it", SQ, "s", SP, "running", ":", NL, SP, SP,
      "ollama", SP, "serve">>

VARIABLES
    session,               \* MCPClient.session
    tools,                 \* WeatherOrchestrator.tools
    conversation_history,  \* WeatherOrchestrator.conversation_history
    pc,                    \* where process_query stands
    user_input,            \* argument of the current process_query
    iteration,             \* local of process_query
    ollama_tools,          \* local of process_query
    tool_calls,            \* local of process_query: the batch being executed
    idx,                   \* position of the for loop in tool_calls
    result,                \* how the last process_query ended
    sent,                  \* the request body of the last chat() call
    queries,               \* process_query calls so far
    backend,               \* the backend of this session: "varied" requests
                           \* any tool calls, at most MaxVaried of them;
                           \* "looping" keeps requesting the plain call;
                           \* "flaky" requests none and fails in every way;
                           \* "brief" requests the plain call at most once
                           \* in a query; so does "shapes", whose provider
                           \* answers with content of every shape;
                           \* "catalog" requests none and its provider
                           \* lists any tools
    variedUsed,            \* tool calls requested so far
    llmCalls,              \* chat() calls of the current query
    posts,                 \* POST /api/chat requests of the current query
    sessionPosts,          \* POST /api/chat requests of the session
    toolCallsMade,         \* mcp.call_tool calls of the current query
    histStart,             \* Len(conversation_history) when the query began
    prevKind,              \* how the query before the current one ended
    responses,             \* the chat() responses of this query
    requested,             \* tool calls the backend requested in this query
    executed,              \* the mcp.call_tool calls of this query, in order:
                           \* the call, the provider's reply, the outcome of
                           \* call_tool and the index of the turn appended
    host,                  \* who drives the orchestrator: "cli" is main(),
                           \* "library" a program calling its methods
    mainpc,                \* where main() stands
    typed,                 \* <<the line input() returned last>>, or NoLine
    printed,               \* what main() printed last
    ending,                \* why main() left its loop
    llm_client,            \* OllamaClient.client
    context_manager,       \* MCPClient._context_manager
    cpc,                   \* where cleanup() stands
    closes,                \* the closes attempted so far, with their outcome
    cleanups               \* cleanup() calls completed

\* the objects' fields and the locals of process_query
progVars  == <<session, tools, conversation_history, pc, user_input, iteration,
               ollama_tools, tool_calls, idx, result>>
\* what the environment has been allowed so far
envVars   == <<queries, backend, variedUsed>>
\* the record of what happened
histVars  == <<sent, llmCalls, posts, sessionPosts, toolCallsMade, histStart, prevKind, responses,
               requested, executed>>

\* main() and its terminal
hostVars  == <<host, mainpc, typed, printed, ending>>
\* teardown
closeVars == <<llm_client, context_manager, cpc, closes, cleanups>>

vars == <<progVars, envVars, histVars, hostVars, closeVars>>

NoResult == [kind |-> "none"]
Running  == [kind |-> "running"]

NoContext == "None"
NoLine    == <<>>

\* who drives the session, against which backend
Scenarios ==
    { <<"library", "varied">>, <<"library", "looping">>, <<"library", "flaky">>,
      <<"library", "shapes">>, <<"library", "catalog">>, <<"cli", "brief">> }

Init ==
    /\ session = NoSession
    /\ tools = <<>>
    /\ conversation_history = <<>>
    /\ pc = "idle"
    /\ user_input = <<>>
    /\ iteration = 0
    /\ ollama_tools = NoTools
    /\ tool_calls = <<>>
    /\ idx = 0
    /\ result = NoResult
    /\ sent = [messages |-> <<>>]
    /\ queries = 0
    /\ \E sc \in Scenarios : host = sc[1] /\ backend = sc[2]
    /\ mainpc = IF host = "cli" THEN "start" ELSE "none"
    /\ typed = NoLine
    /\ printed = <<>>
    /\ ending = "none"
    /\ llm_client = "open"
    /\ context_manager = NoContext
    /\ cpc = "off"
    /\ closes = <<>>
    /\ cleanups = 0
    /\ variedUsed = 0
    /\ llmCalls = 0
    /\ posts = 0
    /\ sessionPosts = 0
    /\ toolCallsMade = 0
    /\ histStart = 0
    /\ prevKind = "none"
    /\ responses = <<>>
    /\ requested = <<>>
    /\ executed = <<>>

\* initialize(): connect() and list_tools() both succeed; listed is what
\* the provider answered to tools/list
Initialize(listed) ==
    /\ pc = "idle"
    /\ session = NoSession
    /\ queries = 0
    /\ session' = "open"
    /\ context_manager' = "entered"
    /\ tools' = listed
    /\ UNCHANGED <<conversation_history, pc, user_input, iteration, ollama_tools,
                   tool_calls, idx, result>>
    /\ UNCHANGED <<envVars, histVars>>
    /\ UNCHANGED <<llm_client, cpc, closes, cleanups>>

\* ProcessQuery, were every query to start a fresh history
ProcessQueryFreshHistory(u) ==
    /\ pc = "idle"
    /\ queries < MaxQueries
    /\ user_input' = u
    /\ conversation_history' = <<[role |-> "user", content |-> u]>>
    /\ ollama_tools' = IF tools # <<>> THEN convert_mcp_tools_to_ollama_format(tools)
                       ELSE NoTools
    /\ iteration' = 0
    /\ pc' = "loop"
    /\ result' = Running
    /\ queries' = queries + 1
    /\ llmCalls' = 0
    /\ posts' = 0
    /\ sessionPosts' = sessionPosts
    /\ toolCallsMade' = 0
    /\ histStart' = 0
    /\ prevKind' = result.kind
    /\ responses' = <<>>
    /\ requested' = <<>>
    /\ executed' = <<>>
    /\ UNCHANGED <<session, tools, tool_calls, idx, sent, backend, variedUsed>>

\* ProcessQuery, were the iteration counter kept from one query to the next
ProcessQueryKeepsIteration(u) ==
    /\ pc = "idle"
    /\ queries < MaxQueries
    /\ user_input' = u
    /\ conversation_history' =
           Append(conversation_history, [role |-> "user", content |-> u])
    /\ ollama_tools' = IF tools # <<>> THEN convert_mcp_tools_to_ollama_format(tools)
                       ELSE NoTools
    /\ iteration' = iteration
    /\ pc' = "loop"
    /\ result' = Running
    /\ queries' = queries + 1
    /\ llmCalls' = 0
    /\ posts' = 0
    /\ sessionPosts' = sessionPosts
    /\ toolCallsMade' = 0
    /\ histStart' = Len(conversation_history)
    /\ prevKind' = result.kind
    /\ responses' = <<>>
    /\ requested' = <<>>
    /\ executed' = <<>>
    /\ UNCHANGED <<session, tools, tool_calls, idx, sent, backend, variedUsed>>

\* process_query, up to the while loop: lines 91-103
ProcessQuery(u) ==
    /\ pc = "idle"
    /\ queries < MaxQueries
    /\ user_input' = u
    /\ conversation_history' =
           Append(conversation_history, [role |-> "user", content |-> u])
    /\ ollama_tools' = IF tools # <<>> THEN convert_mcp_tools_to_ollama_format(tools)
                       ELSE NoTools
    /\ iteration' = 0
    /\ pc' = "loop"
    /\ result' = Running
    /\ queries' = queries + 1
    /\ llmCalls' = 0
    /\ posts' = 0
    /\ sessionPosts' = sessionPosts
    /\ toolCallsMade' = 0
    /\ histStart' = Len(conversation_history)
    /\ prevKind' = result.kind
    /\ responses' = <<>>
    /\ requested' = <<>>
    /\ executed' = <<>>
    /\ UNCHANGED <<session, tools, tool_calls, idx, sent, backend, variedUsed>>

\* ChatSend, were the loop test "iteration <= max_iterations"
ChatSendOffByOne ==
    /\ pc = "loop"
    /\ iteration <= max_iterations
    /\ iteration' = iteration + 1
    /\ sent' = ChatPayload(conversation_history, ollama_tools)
    /\ llmCalls' = llmCalls + 1
    /\ posts' = posts + 1
    /\ sessionPosts' = sessionPosts + 1
    /\ pc' = "chat"
    /\ UNCHANGED <<session, tools, conversation_history, user_input, ollama_tools,
                   tool_calls, idx, result>>
    /\ UNCHANGED <<envVars, toolCallsMade, histStart, prevKind, responses,
                   requested, executed>>

\* ChatSend, were chat() given only the turns of the current query
ChatSendQueryOnly ==
    /\ pc = "loop"
    /\ iteration < max_iterations
    /\ iteration' = iteration + 1
    /\ sent' = ChatPayload(SubSeq(conversation_history, histStart + 1,
                                  Len(conversation_history)), ollama_tools)
    /\ llmCalls' = llmCalls + 1
    /\ posts' = posts + 1
    /\ sessionPosts' = sessionPosts + 1
    /\ pc' = "chat"
    /\ UNCHANGED <<session, tools, conversation_history, user_input, ollama_tools,
                   tool_calls, idx, result>>
    /\ UNCHANGED <<envVars, toolCallsMade, histStart, prevKind, responses,
                   requested, executed>>

\* while iteration < max_iterations: iteration += 1; await self.llm.chat(...)
ChatSend ==
    /\ pc = "loop"
    /\ iteration < max_iterations
    /\ iteration' = iteration + 1
    /\ sent' = ChatPayload(conversation_history, ollama_tools)
    /\ llmCalls' = llmCalls + 1
    /\ posts' = posts + 1
    /\ sessionPosts' = sessionPosts + 1
    /\ pc' = "chat"
    /\ UNCHANGED <<session, tools, conversation_history, user_input, ollama_tools,
                   tool_calls, idx, result>>
    /\ UNCHANGED <<envVars, toolCallsMade, histStart, prevKind, responses,
                   requested, executed>>

\* ReturnExhausted, were the apology recorded as an assistant turn
ReturnExhaustedAppends ==
    /\ pc = "loop"
    /\ ~(iteration < max_iterations)
    /\ result' = [kind |-> "returned", v |-> ApologyMsg]
    /\ pc' = "idle"
    /\ conversation_history' =
           Append(conversation_history, [role |-> "assistant", content |-> ApologyMsg])
    /\ UNCHANGED <<session, tools, user_input, iteration, ollama_tools, tool_calls,
                   idx>>
    /\ UNCHANGED <<envVars, histVars>>

\* ReturnExhausted, were the cap tested with "iteration > max_iterations"
ReturnExhaustedOffByOne ==
    /\ pc = "loop"
    /\ iteration > max_iterations
    /\ result' = [kind |-> "returned", v |-> ApologyMsg]
    /\ pc' = "idle"
    /\ UNCHANGED <<session, tools, conversation_history, user_input, iteration,
                   ollama_tools, tool_calls, idx>>
    /\ UNCHANGED <<envVars, histVars>>

\* the while condition is false: lines 191-193
ReturnExhausted ==
    /\ pc = "loop"
    /\ ~(iteration < max_iterations)
    /\ result' = [kind |-> "returned", v |-> ApologyMsg]
    /\ pc' = "idle"
    /\ UNCHANGED <<session, tools, conversation_history, user_input, iteration,
                   ollama_tools, tool_calls, idx>>
    /\ UNCHANGED <<envVars, histVars>>

\* raise RuntimeError("Could not connect to Ollama. ...") from e, where e is
\* what chat() raised: the message is fixed, e becomes the __cause__
ProcessQueryError(kind, text) ==
    [kind |-> "raised", msg |-> OllamaDownMsg, cause |-> ChatErrorMsg(kind, text),
     why |-> kind, text |-> text]

\* ChatRaises, were the failed query's turns taken back
ChatRaisesRollsBack(kind, text) ==
    /\ pc = "chat"
    /\ result' = ProcessQueryError(kind, text)
    /\ pc' = "idle"
    /\ conversation_history' = SubSeq(conversation_history, 1, histStart)
    /\ UNCHANGED <<session, tools, user_input, iteration, ollama_tools, tool_calls,
                   idx>>
    /\ UNCHANGED <<envVars, histVars>>

\* ChatRaises, were a failed request sent again instead of raising
ChatRaisesRetries(kind, text) ==
    /\ pc = "chat"
    /\ posts < max_iterations + 1
    /\ posts' = posts + 1
    /\ sessionPosts' = sessionPosts + 1
    /\ UNCHANGED <<progVars, envVars>>
    /\ UNCHANGED <<sent, llmCalls, toolCallsMade, histStart, prevKind, responses,
                   requested, executed>>

\* chat() raised: lines 118-123
ChatRaises(kind, text) ==
    /\ pc = "chat"
    /\ result' = ProcessQueryError(kind, text)
    /\ pc' = "idle"
    /\ UNCHANGED <<session, tools, conversation_history, user_input, iteration,
                   ollama_tools, tool_calls, idx>>
    /\ UNCHANGED <<envVars, histVars>>

\* ChatReturns, were the final answer returned without being recorded
ChatReturnsNoAppend(response) ==
    /\ pc = "chat"
    /\ LET message == Get(response, "message", EmptyDict)
           content == Get(message, "content", <<>>)
           calls   == Get(message, "tool_calls", <<>>)
       IN  /\ responses' = Append(responses, response)
           /\ requested' = requested \o calls
           /\ IF calls = <<>>
              THEN /\ UNCHANGED conversation_history
                   /\ result' = [kind |-> "returned", v |-> content]
                   /\ pc' = "idle"
                   /\ UNCHANGED <<tool_calls, idx, variedUsed>>
              ELSE /\ conversation_history' =
                          Append(conversation_history,
                                 [role |-> "assistant", content |-> content,
                                  tool_calls |-> calls])
                   /\ tool_calls' = calls
                   /\ idx' = 1
                   /\ pc' = "dispatch"
                   /\ variedUsed' = IF backend = "varied"
                                    THEN variedUsed + Len(calls) ELSE variedUsed
                   /\ UNCHANGED result
    /\ UNCHANGED <<session, tools, user_input, iteration, ollama_tools>>
    /\ UNCHANGED <<queries, backend, sent, llmCalls, posts, sessionPosts, toolCallsMade, histStart,
                   prevKind, executed>>

\* ChatReturns, were the tool-calling assistant turn not recorded
ChatReturnsDropsCallTurn(response) ==
    /\ pc = "chat"
    /\ LET message == Get(response, "message", EmptyDict)
           content == Get(message, "content", <<>>)
           calls   == Get(message, "tool_calls", <<>>)
       IN  /\ responses' = Append(responses, response)
           /\ requested' = requested \o calls
           /\ IF calls = <<>>
              THEN /\ conversation_history' =
                          Append(conversation_history,
                                 [role |-> "assistant", content |-> content])
                   /\ result' = [kind |-> "returned", v |-> content]
                   /\ pc' = "idle"
                   /\ UNCHANGED <<tool_calls, idx, variedUsed>>
              ELSE /\ UNCHANGED conversation_history
                   /\ tool_calls' = calls
                   /\ idx' = 1
                   /\ pc' = "dispatch"
                   /\ variedUsed' = IF backend = "varied"
                                    THEN variedUsed + Len(calls) ELSE variedUsed
                   /\ UNCHANGED result
    /\ UNCHANGED <<session, tools, user_input, iteration, ollama_tools>>
    /\ UNCHANGED <<queries, backend, sent, llmCalls, posts, sessionPosts, toolCallsMade, histStart,
                   prevKind, executed>>

\* ChatReturns, were the assistant turn to record only the first call
ChatReturnsFirstCallOnly(response) ==
    /\ pc = "chat"
    /\ LET message == Get(response, "message", EmptyDict)
           content == Get(message, "content", <<>>)
           calls   == Get(message, "tool_calls", <<>>)
       IN  /\ responses' = Append(responses, response)
           /\ requested' = requested \o calls
           /\ IF calls = <<>>
              THEN /\ conversation_history' =
                          Append(conversation_history,
                                 [role |-> "assistant", content |-> content])
                   /\ result' = [kind |-> "returned", v |-> content]
                   /\ pc' = "idle"
                   /\ UNCHANGED <<tool_calls, idx, variedUsed>>
              ELSE /\ conversation_history' =
                          Append(conversation_history,
                                 [role |-> "assistant", content |-> content,
                                  tool_calls |-> <<calls[1]>>])
                   /\ tool_calls' = calls
                   /\ idx' = 1
                   /\ pc' = "dispatch"
                   /\ variedUsed' = IF backend = "varied"
                                    THEN variedUsed + Len(calls) ELSE variedUsed
                   /\ UNCHANGED result
    /\ UNCHANGED <<session, tools, user_input, iteration, ollama_tools>>
    /\ UNCHANGED <<queries, backend, sent, llmCalls, posts, sessionPosts,
                   toolCallsMade, histStart, prevKind, executed>>

\* chat() returned: lines 125-148
ChatReturns(response) ==
    /\ pc = "chat"
    /\ LET message == Get(response, "message", EmptyDict)
           content == Get(message, "content", <<>>)
           calls   == Get(message, "tool_calls", <<>>)
       IN  /\ responses' = Append(responses, response)
           /\ requested' = requested \o calls
           /\ IF calls = <<>>
              THEN /\ conversation_history' =
                          Append(conversation_history,
                                 [role |-> "assistant", content |-> content])
                   /\ result' = [kind |-> "returned", v |-> content]
                   /\ pc' = "idle"
                   /\ UNCHANGED <<tool_calls, idx, variedUsed>>
              ELSE /\ conversation_history' =
                          Append(conversation_history,
                                 [role |-> "assistant", content |-> content,
                                  tool_calls |-> calls])
                   /\ tool_calls' = calls
                   /\ idx' = 1
                   /\ pc' = "dispatch"
                   /\ variedUsed' = IF backend = "varied"
                                    THEN variedUsed + Len(calls) ELSE variedUsed
                   /\ UNCHANGED result
    /\ UNCHANGED <<session, tools, user_input, iteration, ollama_tools>>
    /\ UNCHANGED <<queries, backend, sent, llmCalls, posts, sessionPosts, toolCallsMade, histStart,
                   prevKind, executed>>

\* ToolTurn, were the error written with str() instead of json.dumps()
ToolTurnStrError(outcome) ==
    IF outcome.raised
    THEN [role |-> "tool",
          content |-> PyStrOf(PyDict(<<[k |-> <<"error">>, v |-> PyStr(outcome.msg)]>>))]
    ELSE [role |-> "tool",
          content |-> IF outcome.v.t = "dict" THEN JsonDumps(outcome.v)
                      ELSE PyStrOf(outcome.v)]

\* the turn the for loop appends for one call, given what call_tool did:
\* lines 165-178 when it returned, 180-189 when it raised
ToolTurn(outcome) ==
    IF outcome.raised
    THEN [role |-> "tool",
          content |-> JsonDumps(PyDict(<<[k |-> <<"error">>, v |-> PyStr(outcome.msg)]>>))]
    ELSE [role |-> "tool",
          content |-> IF outcome.v.t = "dict" THEN JsonDumps(outcome.v)
                      ELSE PyStrOf(outcome.v)]

\* FinishCall, were no turn appended for a call that raised
FinishCallDropsFailedTurn(reply, outcome) ==
    /\ conversation_history' = IF outcome.raised THEN conversation_history
                               ELSE Append(conversation_history, ToolTurn(outcome))
    /\ executed' = Append(executed, [call |-> tool_calls[idx], reply |-> reply,
                                     outcome |-> outcome,
                                     at |-> Len(conversation_history')])
    /\ idx' = idx + 1
    /\ pc' = IF idx = Len(tool_calls) THEN "loop" ELSE "dispatch"

\* FinishCall, were a failing call to end the batch (no per-call try/except)
FinishCallStopsBatch(reply, outcome) ==
    /\ conversation_history' = Append(conversation_history, ToolTurn(outcome))
    /\ executed' = Append(executed, [call |-> tool_calls[idx], reply |-> reply,
                                     outcome |-> outcome,
                                     at |-> Len(conversation_history) + 1])
    /\ idx' = idx + 1
    /\ pc' = IF idx = Len(tool_calls) \/ outcome.raised THEN "loop" ELSE "dispatch"

\* the rest of the for loop's body once call_tool returned or raised
FinishCall(reply, outcome) ==
    /\ conversation_history' = Append(conversation_history, ToolTurn(outcome))
    /\ executed' = Append(executed, [call |-> tool_calls[idx], reply |-> reply,
                                     outcome |-> outcome,
                                     at |-> Len(conversation_history) + 1])
    /\ idx' = idx + 1
    /\ pc' = IF idx = Len(tool_calls) THEN "loop" ELSE "dispatch"

\* lines 152-154
function  == Get(tool_calls[idx], "function", EmptyDict)
tool_name == Get(function, "name", <<"None">>)
arguments == Get(function, "arguments", PyDict(<<>>))

\* no request reached the provider
NoReply == [raise |-> FALSE, content |-> <<>>, unsent |-> TRUE]

\* ToolInvoke, were the calls of a batch started together and awaited after
ToolInvokeAll ==
    /\ pc = "dispatch"
    /\ toolCallsMade' = IF idx = 1 THEN toolCallsMade + Len(tool_calls)
                        ELSE toolCallsMade
    /\ IF session = NoSession
       THEN FinishCall(NoReply, MCPCallTool(session, tool_name, NoReply))
       ELSE /\ pc' = "tool"
            /\ UNCHANGED <<conversation_history, executed, idx>>
    /\ UNCHANGED <<session, tools, user_input, iteration, ollama_tools, tool_calls,
                   result>>
    /\ UNCHANGED <<envVars, sent, llmCalls, posts, sessionPosts, histStart,
                   prevKind, responses, requested>>

\* for tool_call in tool_calls: ... await self.mcp.call_tool(tool_name, arguments)
\* Without a session call_tool raises before it awaits anything.
ToolInvoke ==
    /\ pc = "dispatch"
    /\ toolCallsMade' = toolCallsMade + 1
    /\ IF session = NoSession
       THEN FinishCall(NoReply, MCPCallTool(session, tool_name, NoReply))
       ELSE /\ pc' = "tool"
            /\ UNCHANGED <<conversation_history, executed, idx>>
    /\ UNCHANGED <<session, tools, user_input, iteration, ollama_tools, tool_calls,
                   result>>
    /\ UNCHANGED <<envVars, sent, llmCalls, posts, sessionPosts, histStart, prevKind, responses,
                   requested>>

\* what the provider side can answer to the call in flight
Replies ==
    IF pc # "tool" THEN {}
    ELSE IF backend = "shapes"
    THEN { [raise |-> FALSE, content |-> c] : c \in ContentShapes }
    ELSE IF backend = "varied"
    THEN { [raise |-> TRUE, msg |-> m] : m \in TransportErrors }
         \cup { [raise |-> FALSE, content |-> ServerCallTool(tool_name, arguments, k)] :
                    k \in WeatherKinds }
    ELSE { [raise |-> FALSE, content |-> ServerCallTool(tool_name, arguments, "ok")] }

\* session.call_tool completed
ToolReturns(reply) ==
    /\ pc = "tool"
    /\ FinishCall(reply, MCPCallTool(session, tool_name, reply))
    /\ UNCHANGED <<session, tools, user_input, iteration, ollama_tools, tool_calls,
                   result>>
    /\ UNCHANGED <<envVars, sent, llmCalls, posts, sessionPosts, toolCallsMade, histStart, prevKind,
                   responses, requested>>

\* what the provider answered to tools/list
Listings ==
    IF backend = "catalog" THEN SeqsUpToFrom0(Descriptors, MaxTools)
    ELSE { <<WeatherTool>> }

\* the tool-calling responses the backend may give now
BatchMenu ==
    CASE backend = "varied"  -> { b \in Batches : variedUsed + Len(b) <= MaxVaried }
      [] backend = "looping" -> { PlainBatch }
      [] backend = "flaky"   -> {}
      [] backend \in {"brief", "shapes"} ->
             IF responses = <<>> THEN { PlainBatch } ELSE {}
      [] backend = "catalog" -> {}

\* the ways the backend may fail now
FailMenu == IF backend = "flaky" THEN ChatFailKinds ELSE {"connect"}

\* the tool-free responses the backend may give now
FinalMenu == IF backend = "flaky" THEN FinalResponses ELSE {PlainFinal}

----------------------------------------------------------------------------
(* initialize() failing, cleanup(), and main(): client/main.py *)

\* where initialize() can fail: starting the provider process, the session
\* handshake, the tools/list request
InitStages == {"spawn", "handshake", "list_tools"}

\* the message of the RuntimeError initialize() raises
InitErrorMsg(stage) ==
    IF stage = "list_tools"
    THEN <<"Could", SP, "not", SP, "discover", SP, "tools", SP, "from", SP, "MCP",
           SP, "Server">>
    ELSE <<"Could", SP, "not", SP, "connect", SP, "to", SP, "MCP", SP, "Server.",
           SP, "Please", SP, "ensure", SP, "the", SP, "server", SP, "is", SP,
           "running", ":", NL, SP, SP, "uv", SP, "run", SP, "python", SP, "-m",
           SP, "weather_mcp.main">>

\* initialize() raises.  connect() assigns _context_manager before entering
\* it and session before its handshake, so a failed connect leaves them set.
InitializeFails(stage) ==
    /\ pc = "idle"
    /\ session = NoSession
    /\ queries = 0
    /\ context_manager' = IF stage = "spawn" THEN "created" ELSE "entered"
    /\ session' = CASE stage = "spawn"      -> NoSession
                    [] stage = "handshake"  -> "unready"
                    [] stage = "list_tools" -> "open"
    /\ UNCHANGED <<tools, conversation_history, pc, user_input, iteration,
                   ollama_tools, tool_calls, idx, result>>
    /\ UNCHANGED <<envVars, histVars>>
    /\ UNCHANGED <<llm_client, cpc, closes, cleanups>>

\* the outcomes of closing a resource: it returns, or raises an Exception
CloseOutcomes == BOOLEAN

\* what mcp.close() awaits next, given what it has done
AfterLlm     == IF session # NoSession THEN "session"
                ELSE IF context_manager # NoContext THEN "ctx" ELSE "off"
AfterSession == IF context_manager # NoContext THEN "ctx" ELSE "off"

\* cleanup() is called and awaits self.llm.close()
CleanupBegin ==
    /\ cpc = "off"
    /\ cpc' = "llm"
    /\ UNCHANGED <<llm_client, context_manager, closes, cleanups>>
    /\ UNCHANGED <<progVars, envVars, histVars>>

\* LlmCloseDone, were a failure of llm.close() to end cleanup()
LlmCloseDoneGivesUp(ok) ==
    /\ cpc = "llm"
    /\ closes' = Append(closes, [what |-> "llm", ok |-> ok])
    /\ llm_client' = IF ok THEN "closed" ELSE llm_client
    /\ cpc' = IF ok THEN AfterLlm ELSE "off"
    /\ cleanups' = IF cpc' = "off" THEN cleanups + 1 ELSE cleanups
    /\ UNCHANGED context_manager
    /\ UNCHANGED <<progVars, envVars, histVars>>

\* client.aclose() returned or raised; llm.close() swallows the exception and
\* cleanup() goes on to mcp.close(): llm.py 89-96, orchestrator.py 198-208
LlmCloseDone(ok) ==
    /\ cpc = "llm"
    /\ closes' = Append(closes, [what |-> "llm", ok |-> ok])
    /\ llm_client' = IF ok THEN "closed" ELSE llm_client
    /\ cpc' = AfterLlm
    /\ cleanups' = IF cpc' = "off" THEN cleanups + 1 ELSE cleanups
    /\ UNCHANGED context_manager
    /\ UNCHANGED <<progVars, envVars, histVars>>

\* session.__aexit__ returned or raised: mcp.py 141-146
SessionCloseDone(ok) ==
    /\ cpc = "session"
    /\ closes' = Append(closes, [what |-> "session", ok |-> ok])
    /\ session' = IF ok THEN "closed" ELSE session
    /\ cpc' = AfterSession
    /\ cleanups' = IF cpc' = "off" THEN cleanups + 1 ELSE cleanups
    /\ UNCHANGED <<llm_client, context_manager>>
    /\ UNCHANGED <<tools, conversation_history, pc, user_input, iteration,
                   ollama_tools, tool_calls, idx, result>>
    /\ UNCHANGED <<envVars, histVars>>

\* ContextCloseDone, were the exception of a failed exit to leave close() and
\* cleanup()
ContextCloseDoneRaises(ok) ==
    /\ cpc = "ctx"
    /\ closes' = Append(closes, [what |-> "ctx", ok |-> ok])
    /\ context_manager' = IF ok THEN "exited" ELSE context_manager
    /\ cpc' = IF ok THEN "off" ELSE "raised"
    /\ cleanups' = IF ok THEN cleanups + 1 ELSE cleanups
    /\ UNCHANGED llm_client
    /\ UNCHANGED <<progVars, envVars, histVars>>

\* _context_manager.__aexit__ returned or raised: mcp.py 148-155
ContextCloseDone(ok) ==
    /\ cpc = "ctx"
    /\ closes' = Append(closes, [what |-> "ctx", ok |-> ok])
    /\ context_manager' = IF ok THEN "exited" ELSE context_manager
    /\ cpc' = "off"
    /\ cleanups' = cleanups + 1
    /\ UNCHANGED llm_client
    /\ UNCHANGED <<progVars, envVars, histVars>>

MaxCleanups == 2    \* cleanup() calls of a library session

\* the lines the user may type
Lines == { <<"weather", SP, "in", SP, "London?", SP>>, <<SP>>, <<SP, "Quit">> }

ExitWords == { <<"exit">>, <<"quit">>, <<"q">> }

\* main(): await orchestrator.initialize() returned
MainInitialize ==
    /\ mainpc = "start"
    /\ \E listed \in Listings : Initialize(listed)
    /\ mainpc' = "input"
    /\ UNCHANGED <<host, typed, printed, ending>>

\* MainInitializeFails, were main() to report the error and go on to the prompt
MainInitializeFailsGoesOn(stage) ==
    /\ mainpc = "start"
    /\ InitializeFails(stage)
    /\ printed' = Cat(<<"Fatal", SP, "error", ":", SP>>, InitErrorMsg(stage))
    /\ ending' = "fatal"
    /\ mainpc' = "input"
    /\ UNCHANGED <<host, typed>>

\* main(): initialize() raised: lines 62-66
MainInitializeFails(stage) ==
    /\ mainpc = "start"
    /\ InitializeFails(stage)
    /\ printed' = Cat(<<"Fatal", SP, "error", ":", SP>>, InitErrorMsg(stage))
    /\ ending' = "fatal"
    /\ mainpc' = "cleanup"
    /\ UNCHANGED <<host, typed>>

\* main(): if not user_input: continue
MainBlank(line) ==
    /\ mainpc = "input"
    /\ Strip(line) = <<>>
    /\ typed' = <<line>>
    /\ UNCHANGED <<host, mainpc, printed, ending>>
    /\ UNCHANGED <<progVars, envVars, histVars, closeVars>>

\* main(): lines 43-46
MainExitCommand(line) ==
    /\ mainpc = "input"
    /\ Strip(line) # <<>>
    /\ Lower(Strip(line)) \in ExitWords
    /\ typed' = <<line>>
    /\ printed' = <<"Goodbye!">>
    /\ ending' = "exit"
    /\ mainpc' = "cleanup"
    /\ UNCHANGED host
    /\ UNCHANGED <<progVars, envVars, histVars, closeVars>>

\* main(): input() raised EOFError
MainEOF ==
    /\ mainpc = "input"
    /\ ending' = "eof"
    /\ mainpc' = "cleanup"
    /\ UNCHANGED <<host, typed, printed>>
    /\ UNCHANGED <<progVars, envVars, histVars, closeVars>>

\* MainQuery, were input read while a query is in flight
MainQueryPipelined(line) ==
    /\ mainpc \in {"input", "query"}
    /\ queries < MaxQueries
    /\ Strip(line) # <<>>
    /\ Lower(Strip(line)) \notin ExitWords
    /\ user_input' = Strip(line)
    /\ conversation_history' =
           Append(conversation_history, [role |-> "user", content |-> Strip(line)])
    /\ queries' = queries + 1
    /\ histStart' = Len(conversation_history)
    /\ prevKind' = result.kind
    /\ typed' = <<line>>
    /\ mainpc' = "query"
    /\ IF pc = "idle"
       THEN /\ ollama_tools' = IF tools # <<>>
                               THEN convert_mcp_tools_to_ollama_format(tools)
                               ELSE NoTools
            /\ iteration' = 0
            /\ pc' = "loop"
            /\ result' = Running
            /\ llmCalls' = 0
            /\ posts' = 0
            /\ sessionPosts' = sessionPosts
            /\ toolCallsMade' = 0
            /\ responses' = <<>>
            /\ requested' = <<>>
            /\ executed' = <<>>
       ELSE UNCHANGED <<ollama_tools, iteration, pc, result, llmCalls, posts, sessionPosts,
                        toolCallsMade, responses, requested, executed>>
    /\ UNCHANGED <<session, tools, tool_calls, idx, sent, backend, variedUsed>>
    /\ UNCHANGED <<host, printed, ending, closeVars>>

\* main(): response = await orchestrator.process_query(user_input), entered
MainQuery(line) ==
    /\ mainpc = "input"
    /\ Strip(line) # <<>>
    /\ Lower(Strip(line)) \notin ExitWords
    /\ ProcessQuery(Strip(line))
    /\ typed' = <<line>>
    /\ mainpc' = "query"
    /\ UNCHANGED <<host, printed, ending, closeVars>>

\* MainReport, were an error of process_query to end the loop
MainReportFatal ==
    /\ mainpc = "query"
    /\ pc = "idle"
    /\ printed' = IF result.kind = "returned"
                  THEN Cat3(<<NL, "Assistant", ":", SP>>, result.v, <<NL>>)
                  ELSE Cat3(<<NL, "Error", ":", SP>>, result.msg, <<NL>>)
    /\ mainpc' = IF result.kind = "returned" THEN "input" ELSE "cleanup"
    /\ ending' = IF result.kind = "returned" THEN ending ELSE "fatal"
    /\ UNCHANGED <<host, typed>>
    /\ UNCHANGED <<progVars, envVars, histVars, closeVars>>

\* main(): process_query returned or raised: lines 52-57
MainReport ==
    /\ mainpc = "query"
    /\ pc = "idle"
    /\ printed' = IF result.kind = "returned"
                  THEN Cat3(<<NL, "Assistant", ":", SP>>, result.v, <<NL>>)
                  ELSE Cat3(<<NL, "Error", ":", SP>>, result.msg, <<NL>>)
    /\ mainpc' = "input"
    /\ UNCHANGED <<host, typed, ending>>
    /\ UNCHANGED <<progVars, envVars, histVars, closeVars>>

\* how an interrupt reaches main(): as KeyboardInterrupt, which lines 59-61
\* catch, or as the cancellation of the task asyncio.run() started, which
\* passes every except clause of main() and process_query
Interrupts == {"interrupt", "cancelled"}

InterruptPrint(how) ==
    IF how = "interrupt" THEN <<NL, NL, "Interrupted", SP, "by", SP, "user">>
    ELSE printed

\* the user interrupts while main() waits in input()
MainInterruptInput ==
    /\ mainpc = "input"
    /\ printed' = InterruptPrint("interrupt")
    /\ ending' = "interrupt"
    /\ mainpc' = "cleanup"
    /\ UNCHANGED <<host, typed>>
    /\ UNCHANGED <<progVars, envVars, histVars, closeVars>>

\* the user interrupts while process_query awaits chat() or call_tool()
MainInterruptQuery(how) ==
    /\ mainpc = "query"
    /\ pc \in {"chat", "tool"}
    /\ pc' = "cancelled"
    /\ result' = [kind |-> "interrupted"]
    /\ printed' = InterruptPrint(how)
    /\ ending' = how
    /\ mainpc' = "cleanup"
    /\ UNCHANGED <<host, typed>>
    /\ UNCHANGED <<session, tools, conversation_history, user_input, iteration,
                   ollama_tools, tool_calls, idx>>
    /\ UNCHANGED <<envVars, histVars, closeVars>>

\* MainCleanup, were cleanup() run only after a clean exit of the loop
MainCleanupOnCleanExit ==
    /\ mainpc = "cleanup"
    /\ cleanups = 0
    /\ IF ending \in {"exit", "eof"}
       THEN /\ CleanupBegin
            /\ UNCHANGED hostVars
       ELSE /\ mainpc' = "exited"
            /\ UNCHANGED <<host, typed, printed, ending>>
            /\ UNCHANGED <<progVars, envVars, histVars, closeVars>>

\* main(): finally: await orchestrator.cleanup()
MainCleanup ==
    /\ mainpc = "cleanup"
    /\ cleanups = 0
    /\ CleanupBegin
    /\ UNCHANGED hostVars

\* main() returns, or the exception it is leaving with ends the process
MainExited ==
    /\ mainpc = "cleanup"
    /\ cpc = "off"
    /\ cleanups = 1
    /\ mainpc' = "exited"
    /\ UNCHANGED <<host, typed, printed, ending>>
    /\ UNCHANGED <<progVars, envVars, histVars, closeVars>>

\* the exit status of the process: sys.exit(1) on a fatal error
ExitStatus == IF ending = "fatal" THEN 1 ELSE 0

\* a program that uses the orchestrator calls its methods one at a time
LibraryInitialize ==
    /\ host = "library"
    /\ cpc = "off"
    /\ cleanups = 0
    /\ \E listed \in Listings : Initialize(listed)
    /\ UNCHANGED hostVars

LibraryQuery(u) ==
    /\ host = "library"
    /\ cpc = "off"
    /\ cleanups = 0
    /\ ProcessQuery(u)
    /\ UNCHANGED <<hostVars, closeVars>>

\* it tears down the sessions with the flaky backend, possibly twice
LibraryCleanup ==
    /\ host = "library"
    /\ backend = "flaky"
    /\ pc = "idle"
    /\ cleanups < MaxCleanups
    /\ CleanupBegin
    /\ UNCHANGED hostVars

\* a step inside process_query changes nothing of main() or of the teardown
InQuery == UNCHANGED <<hostVars, closeVars>>

Next ==
    \/ LibraryInitialize
    \/ \E u \in Utterances : LibraryQuery(u)
    \/ ChatSend /\ InQuery
    \/ ReturnExhausted /\ InQuery
    \/ \E k \in FailMenu, t \in BackendTexts : ChatRaises(k, t) /\ InQuery
    \/ \E r \in FinalMenu : ChatReturns(r) /\ InQuery
    \/ \E b \in BatchMenu : ChatReturns(ToolResponse(b)) /\ InQuery
    \/ ToolInvoke /\ InQuery
    \/ \E reply \in Replies : ToolReturns(reply) /\ InQuery
    \/ LibraryCleanup
    \/ \E ok \in CloseOutcomes : LlmCloseDone(ok) /\ UNCHANGED hostVars
    \/ \E ok \in CloseOutcomes : SessionCloseDone(ok) /\ UNCHANGED hostVars
    \/ \E ok \in CloseOutcomes : ContextCloseDone(ok) /\ UNCHANGED hostVars
    \/ MainInitialize
    \/ \E stage \in InitStages : MainInitializeFails(stage)
    \/ \E line \in Lines : MainBlank(line)
    \/ \E line \in Lines : MainExitCommand(line)
    \/ MainEOF
    \/ \E line \in Lines : MainQuery(line)
    \/ MainReport
    \/ MainInterruptInput
    \/ \E how \in Interrupts : MainInterruptQuery(how)
    \/ MainCleanup
    \/ MainExited

Spec == Init /\ [][Next]_vars

\* the steps process_query takes by itself, and the chat() call coming back
QueryStep ==
    \/ ChatSend /\ InQuery
    \/ ReturnExhausted /\ InQuery
    \/ \E k \in FailMenu, t \in BackendTexts : ChatRaises(k, t) /\ InQuery
    \/ \E r \in FinalMenu : ChatReturns(r) /\ InQuery
    \/ \E b \in BatchMenu : ChatReturns(ToolResponse(b)) /\ InQuery
    \/ ToolInvoke /\ InQuery

\* the await of mcp.call_tool is over and the for loop is at its next call:
\* of the steps of Next, the ToolReturns steps and no others
ToolComesBack ==
    /\ pc = "tool"
    /\ pc' \in {"loop", "dispatch"}
    /\ idx' = idx + 1

\* The coroutine runs while it is not awaiting, and each await of chat() and
\* of call_tool comes back, with a value or an exception (the backend client
\* has timeout=120.0: llm.py line 25).  Nothing is assumed of the user, of the
\* interrupt, or of which answer comes back.  Every such step moves pc, idx
\* or iteration.
LiveSpec ==
    /\ Init /\ [][Next]_vars
    /\ WF_<<pc, idx, iteration>>(QueryStep)
    /\ WF_<<pc, idx>>(ToolComesBack)

----------------------------------------------------------------------------
(* Properties *)

\* the turns the current query has appended
QueryTurns == SubSeq(conversation_history, histStart + 1, Len(conversation_history))

\* positions in conversation_history of the 'tool' turns of the current query
ToolIdx == { i \in histStart + 1 .. Len(conversation_history) :
                 conversation_history[i].role = "tool" }

HasCalls(turn) == "tool_calls" \in DOMAIN turn

\* what a chat() response carries
CallsOf(response)   == Get(Get(response, "message", EmptyDict), "tool_calls", <<>>)
ContentOf(response) == Get(Get(response, "message", EmptyDict), "content", <<>>)
NumCalls(response)  == Len(CallsOf(response))

\* the query has ended: process_query returned or raised
Ended == pc = "idle" /\ result.kind \in {"returned", "raised"}

\* C1: when a query has ended, the 'tool' turns it appended are exactly one
\* per tool call the backend requested during it, in the order requested:
\* the j-th call_tool was made for the j-th requested call and its turn is
\* the j-th 'tool' turn, whether call_tool returned or raised.
C1_OneToolTurnPerCall ==
    Ended =>
        /\ Len(executed) = Len(requested)
        /\ Cardinality(ToolIdx) = Len(requested)
        /\ \A j \in 1..Len(executed) :
              /\ executed[j].call = requested[j]
              /\ executed[j].at \in ToolIdx
              /\ conversation_history[executed[j].at] = ToolTurn(executed[j].outcome)
              /\ j > 1 => executed[j - 1].at < executed[j].at

\* a query ended whose backend asked for two calls in one response, the first
\* of which failed and the second of which succeeded
C1_Witness ==
    /\ Ended
    /\ \E j \in 1..Len(executed) - 1 :
          /\ executed[j].outcome.raised
          /\ ~executed[j + 1].outcome.raised
          /\ executed[j].at + 1 = executed[j + 1].at
          /\ executed[j].call # executed[j + 1].call

\* the 'tool-calling' responses of the current query
ToolRounds == { i \in 1..Len(responses) : NumCalls(responses[i]) > 0 }

\* C2: within one query the iteration counter never exceeds the cap, at most
\* max_iterations chat() calls are made, and a query whose max_iterations
\* responses all requested tools returns the apology after exactly
\* max_iterations calls.
C2_IterationCap ==
    /\ iteration <= max_iterations
    /\ llmCalls <= max_iterations
    /\ llmCalls = iteration
    /\ (pc = "idle" /\ Cardinality(ToolRounds) = max_iterations) =>
          /\ result = [kind |-> "returned", v |-> ApologyMsg]
          /\ llmCalls = max_iterations

\* a query that used up its iterations and returned the apology
C2_Witness ==
    /\ pc = "idle"
    /\ Cardinality(ToolRounds) = max_iterations
    /\ result.kind = "returned"
    /\ result.v = ApologyMsg

ErrorObject(msg) == PyDict(<<[k |-> <<"error">>, v |-> PyStr(msg)]>>)

IsToolTurn(turn) == turn.role = "tool" /\ ~HasCalls(turn)

\* C3: a call whose mcp.call_tool raised has exactly one 'tool' turn, whose
\* content parses as JSON to {"error": <the message raised>}; the turn after
\* it belongs to the next call or the next response, the query goes on right
\* after it, and process_query raises only for a failed backend call.
C3_FailedCallBecomesErrorTurn ==
    /\ [](\A j \in 1..Len(executed) :
            executed[j].outcome.raised =>
                LET at   == executed[j].at
                    turn == conversation_history[at]
                IN  /\ IsToolTurn(turn)
                    /\ JsonLoads(turn.content) =
                           [ok |-> TRUE, v |-> ErrorObject(executed[j].outcome.msg)]
                    /\ at < Len(conversation_history) =>
                           \/ conversation_history[at + 1].role # "tool"
                           \/ j < Len(executed) /\ executed[j + 1].at = at + 1)
    /\ [](result.kind = "raised" => result.why \in ChatFailKinds)
    /\ [][(Len(executed') = Len(executed) + 1
              /\ executed'[Len(executed')].outcome.raised) =>
            /\ pc' = IF idx = Len(tool_calls) THEN "loop" ELSE "dispatch"
            /\ idx' = idx + 1
            /\ result' = result
            /\ Len(conversation_history') = Len(conversation_history) + 1]_vars

\* a call to a connected provider failed with a message that needs escaping,
\* and the query went on to its end
C3_Witness ==
    /\ Ended
    /\ session # NoSession
    /\ \E j \in 1..Len(executed) :
          /\ executed[j].outcome.raised
          /\ HasAtom(executed[j].outcome.msg, Q)
          /\ executed[j].at < Len(conversation_history)

\* the call could not be carried out: no session, or session.call_tool raised
InvocationFailed(e) == "unsent" \in DOMAIN e.reply \/ e.reply.raise

NameOf(call) == Get(Get(call, "function", EmptyDict), "name", <<"None">>)

\* C4, as claimed: whenever the invocation fails, call_tool does not raise
\* and returns an object {"error": message}.
C4_ExecutorReturnsErrorObject ==
    \A j \in 1..Len(executed) :
        InvocationFailed(executed[j]) =>
            /\ ~executed[j].outcome.raised
            /\ executed[j].outcome.v.t = "dict"
            /\ Len(executed[j].outcome.v.v) = 1
            /\ executed[j].outcome.v.v[1].k = <<"error">>

\* C4, amended: call_tool raises exactly when the invocation fails, with
\* "MCP client not connected" when there is no session and with
\* "Tool '<name>' execution failed: <cause>" when session.call_tool raised;
\* the {"error": message} object is made by process_query, from the message
\* raised, as the content of the call's 'tool' turn.
C4_ExecutorRaises ==
    \A j \in 1..Len(executed) :
        LET e == executed[j]
        IN  /\ InvocationFailed(e) <=> e.outcome.raised
            /\ "unsent" \in DOMAIN e.reply => e.outcome = Raised(NotConnectedMsg)
            /\ ("unsent" \notin DOMAIN e.reply /\ e.reply.raise) =>
                   e.outcome = Raised(ToolFailedMsg(NameOf(e.call), e.reply.msg))
            /\ e.outcome.raised =>
                   conversation_history[e.at].content =
                       JsonDumps(ErrorObject(e.outcome.msg))

\* a query has ended in which session.call_tool raised for one call and
\* delivered a result for another
C4_Witness ==
    /\ Ended
    /\ session # NoSession
    /\ \E j, k \in 1..Len(executed) :
          /\ executed[j].reply.raise
          /\ executed[j].outcome.raised
          /\ ~InvocationFailed(executed[k])

RECURSIVE Contains(_, _)
Contains(s, sub) ==
    IF Len(s) < Len(sub) THEN FALSE
    ELSE IF SubSeq(s, 1, Len(sub)) = sub THEN TRUE
    ELSE Contains(Tail(s), sub)

\* C5, as claimed: the error process_query raises tells the kind of backend
\* failure: no other kind would have produced the same message, and for a
\* generic backend error the message carries the backend's error text.
C5_FailureKindsDistinct ==
    result.kind = "raised" =>
        /\ \A k \in ChatFailKinds \ {result.why}, t \in BackendTexts :
               ProcessQueryError(k, t).msg # result.msg
        /\ result.why = "http_error" => Contains(result.msg, result.text)

Aborted == pc = "idle" /\ result.kind = "raised"

\* C6: when chat() fails, process_query raises at once: the history is the
\* one that failing call was given, nothing more is called for the query,
\* the only thing that can follow is a new query, which appends its user turn
\* to that history, and the first chat() of a query that follows an aborted
\* one is given the whole history, ending with the new user turn.
C6_AbortKeepsHistory ==
    /\ [](Aborted =>
            /\ conversation_history = sent.messages
            /\ llmCalls = iteration
            /\ toolCallsMade = Len(executed))
    /\ [][(Aborted /\ pc' # pc) =>
            /\ pc' = "loop"
            /\ conversation_history' =
                   Append(conversation_history, [role |-> "user", content |-> user_input'])
            /\ llmCalls' = 0 /\ toolCallsMade' = 0]_vars
    /\ []((pc = "chat" /\ llmCalls = 1 /\ prevKind = "raised") =>
            /\ sent.messages = conversation_history
            /\ Len(conversation_history) = histStart + 1
            /\ conversation_history[histStart + 1] =
                   [role |-> "user", content |-> user_input])

\* the first chat() of a query that follows a query aborted in its second
\* iteration or later
C6_Witness ==
    /\ pc = "chat"
    /\ llmCalls = 1
    /\ prevKind = "raised"
    /\ histStart >= 3

\* C7: a query whose first response has no tool calls appends the user turn
\* and one assistant turn with the response's content, calls chat() once and
\* call_tool never, and returns that content.
C7_DirectAnswer ==
    (Len(responses) >= 1 /\ NumCalls(responses[1]) = 0) =>
        /\ pc = "idle"
        /\ result = [kind |-> "returned", v |-> ContentOf(responses[1])]
        /\ Len(conversation_history) = histStart + 2
        /\ QueryTurns = << [role |-> "user", content |-> user_input],
                           [role |-> "assistant", content |-> ContentOf(responses[1])] >>
        /\ llmCalls = 1
        /\ toolCallsMade = 0

\* the second query of a session was answered directly
C7_Witness ==
    /\ Len(responses) = 1
    /\ NumCalls(responses[1]) = 0
    /\ ContentOf(responses[1]) # <<>>
    /\ histStart > 0

\* C8: a query whose first response requests one call and whose second
\* requests none appends user, assistant with tool_calls, tool, assistant, in
\* that order, with two chat() calls and one call_tool call.
C8_OneToolRound ==
    (Len(responses) = 2 /\ NumCalls(responses[1]) = 1 /\ NumCalls(responses[2]) = 0) =>
        /\ pc = "idle"
        /\ Len(executed) = 1
        /\ QueryTurns = << [role |-> "user", content |-> user_input],
                           [role |-> "assistant", content |-> ContentOf(responses[1]),
                            tool_calls |-> CallsOf(responses[1])],
                           ToolTurn(executed[1].outcome),
                           [role |-> "assistant", content |-> ContentOf(responses[2])] >>
        /\ llmCalls = 2
        /\ toolCallsMade = 1

\* such a query, with a tool call that succeeded
C8_Witness ==
    /\ Len(responses) = 2
    /\ NumCalls(responses[1]) = 1
    /\ NumCalls(responses[2]) = 0
    /\ Len(executed) = 1
    /\ ~executed[1].outcome.raised

Exhausted ==
    /\ pc = "idle"
    /\ Len(responses) = max_iterations
    /\ \A i \in 1..Len(responses) : NumCalls(responses[i]) > 0

\* C9: a query that ends exhausted returns the apology and leaves the history
\* ending with the 'tool' turn of the last call of the last batch: the query
\* appended its user turn, one assistant turn per response and one 'tool' turn
\* per call, and no turn holds the apology.
C9_ExhaustedAppendsNothing ==
    Exhausted =>
        /\ result = [kind |-> "returned", v |-> ApologyMsg]
        /\ executed # <<>>
        /\ executed[Len(executed)].at = Len(conversation_history)
        /\ IsToolTurn(conversation_history[Len(conversation_history)])
        /\ Len(QueryTurns) = 1 + max_iterations + Len(requested)
        /\ \A i \in 1..Len(conversation_history) :
               conversation_history[i].content # ApologyMsg

\* an exhausted query whose last call failed
C9_Witness ==
    /\ Exhausted
    /\ executed[Len(executed)].outcome.raised

\* C10: every step leaves the history as it was or extends it at the end.
C10_AppendOnly ==
    [][IsPrefix(conversation_history, conversation_history')]_vars

\* a second query has ended with turns of both queries in the history
C10_Witness ==
    /\ Ended
    /\ queries = 2
    /\ histStart >= 2
    /\ Len(conversation_history) >= histStart + 2

----------------------------------------------------------------------------
(* Result normalization and the content of 'tool' turns *)

\* the provider answered the call, as opposed to the call not being carried out
Answered(e) == ~InvocationFailed(e)

\* the first content item of the provider's answer is text
FirstIsText(e) ==
    /\ Answered(e)
    /\ e.reply.content # <<>>
    /\ "text" \in DOMAIN e.reply.content[1]

\* the 'tool' turn process_query would append had the provider answered the
\* call with this content
TurnFor(name, content) ==
    ToolTurn(MCPCallTool("open", name, [raise |-> FALSE, content |-> content]))

\* C11, as claimed: for a call the provider answered with no content,
\* call_tool returns a marker that is neither null nor the empty string, and
\* the 'tool' turn appended differs from the turn of every answer that
\* carries text, empty or not.
C11_NoContentMarker ==
    \A j \in 1..Len(executed) :
        LET e == executed[j]
        IN  (Answered(e) /\ e.reply.content = <<>>) =>
                /\ ~e.outcome.raised
                /\ e.outcome.v # PyNone
                /\ e.outcome.v # PyStr(<<>>)
                /\ \A c \in ContentShapes :
                       (c # <<>> /\ "text" \in DOMAIN c[1]) =>
                           TurnFor(NameOf(e.call), c) # conversation_history[e.at]

JsonObjectA == <<"{", Q, "a", Q, ":", "1", "}">>

\* C12: when the first content item is text, call_tool returns what
\* json.loads makes of the text if it is valid JSON and the text itself if it
\* is not; '{"a":1}' gives the mapping {a: 1} and 'hello' gives 'hello'.
C12_Normalization ==
    \A j \in 1..Len(executed) :
        LET e == executed[j]
        IN  FirstIsText(e) =>
                LET text   == e.reply.content[1].text
                    parsed == JsonLoads(text)
                IN  /\ ~e.outcome.raised
                    /\ parsed.ok => e.outcome.v = parsed.v
                    /\ ~parsed.ok => e.outcome.v = PyStr(text)
                    /\ text = JsonObjectA =>
                           e.outcome.v = PyDict(<<[k |-> <<"a">>, v |-> PyNum("1")]>>)
                    /\ text = <<"hello">> => e.outcome.v = PyStr(<<"hello">>)
                    /\ text = <<"[", "1", ",", SP, "2", "]">> =>
                           e.outcome.v = PyList(<<PyNum("1"), PyNum("2")>>)
                    /\ text = <<Q, "hello", Q>> => e.outcome.v = PyStr(<<"hello">>)
                    /\ text = <<"true">> => e.outcome.v = PyBool(TRUE)

\* in one session the provider answered '{"a":1}' to a call of one query and
\* text that is not JSON to a call of the next
C12_Witness ==
    /\ Ended
    /\ queries = 2
    /\ \E i \in 1..Len(conversation_history) :
           conversation_history[i] = TurnFor(WeatherToolName, <<TextContent(JsonObjectA)>>)
    /\ \E j \in 1..Len(executed) :
           /\ FirstIsText(executed[j])
           /\ ~JsonLoads(executed[j].reply.content[1].text).ok
           /\ executed[j].outcome.v.t = "str"

\* C13, as claimed: the 'tool' turn of every call that call_tool returned
\* from holds the JSON serialization of what it returned: json.loads of the
\* content gives the payload back.
C13_ToolTurnIsJson ==
    \A j \in 1..Len(executed) :
        LET e == executed[j]
        IN  ~e.outcome.raised =>
                JsonLoads(conversation_history[e.at].content) =
                    [ok |-> TRUE, v |-> e.outcome.v]

----------------------------------------------------------------------------
(* Teardown *)

\* the closes attempted on one resource
ClosesOf(what) == { i \in 1..Len(closes) : closes[i].what = what }

\* cleanup() is not running
CleanupIdle == cpc = "off"

\* C14: every close that fails is followed by the attempt cleanup() makes
\* next: after the backend client's close, the provider session's (if there
\* is a session) and then the provider process's (if there is one), whatever
\* the outcome of the closes before; and cleanup() ends only after the last
\* of them.
C14_CleanupAttemptsBoth ==
    /\ \A i \in 1..Len(closes) :
          /\ (closes[i].what = "llm" /\ session # NoSession) =>
                 \/ i = Len(closes) /\ cpc = "session"
                 \/ i < Len(closes) /\ closes[i + 1].what = "session"
          /\ (closes[i].what \in {"llm", "session"} /\ context_manager # NoContext) =>
                 \/ i = Len(closes) /\ cpc \in {"session", "ctx"}
                 \/ i < Len(closes) /\ closes[i + 1].what \in {"session", "ctx"}
    /\ (CleanupIdle /\ cleanups > 0) => closes[Len(closes)].what =
           IF context_manager # NoContext THEN "ctx"
           ELSE IF session # NoSession THEN "session" ELSE "llm"
    /\ cpc \in {"off", "llm", "session", "ctx"}

\* a cleanup() that completed although the backend client's close and the
\* session's close both failed
C14_Witness ==
    /\ CleanupIdle
    /\ cleanups = 1
    /\ Len(closes) = 3
    /\ ~closes[1].ok
    /\ ~closes[2].ok
    /\ closes[3].what = "ctx"

\* C15: a repeated cleanup(), and a cleanup() of an orchestrator that never
\* connected, run to their end like the first: each cleanup() makes one close
\* attempt on the backend client and one on each provider resource that
\* exists, and no outcome of a close makes cleanup() raise.
C15_TeardownIdempotent ==
    /\ cpc # "raised"
    /\ CleanupIdle =>
          /\ Cardinality(ClosesOf("llm")) = cleanups
          /\ Cardinality(ClosesOf("session")) =
                 IF session # NoSession THEN cleanups ELSE 0
          /\ Cardinality(ClosesOf("ctx")) =
                 IF context_manager # NoContext THEN cleanups ELSE 0
    /\ (session = NoSession /\ context_manager = NoContext) =>
          \A i \in 1..Len(closes) : closes[i].what = "llm"

\* a second cleanup() completed on a connected orchestrator, whose first
\* cleanup() had closed everything and whose second found the provider
\* process's exit failing
C15_Witness ==
    /\ CleanupIdle
    /\ cleanups = 2
    /\ Len(closes) = 6
    /\ closes[1].ok /\ closes[2].ok /\ closes[3].ok
    /\ ~closes[6].ok

\* main() has ended
Exited == mainpc = "exited"

\* C16: when main() has ended, for whatever reason its loop was left,
\* cleanup() has run to its end, once: the backend client's close was
\* attempted, and the close of each provider resource that exists; and the
\* exit status is 1 exactly for a fatal error.
C16_TeardownOnEveryExit ==
    Exited =>
        /\ ending \in {"exit", "eof", "interrupt", "cancelled", "fatal"}
        /\ cleanups = 1
        /\ CleanupIdle
        /\ Cardinality(ClosesOf("llm")) = 1
        /\ session # NoSession => Cardinality(ClosesOf("session")) = 1
        /\ context_manager # NoContext => Cardinality(ClosesOf("ctx")) = 1
        /\ ExitStatus = IF ending = "fatal" THEN 1 ELSE 0
        /\ pc \in {"idle", "cancelled"}

\* main() ended after an interrupt that arrived while a tool call of the
\* second query was in flight
C16_Witness ==
    /\ Exited
    /\ ending = "cancelled"
    /\ pc = "cancelled"
    /\ queries = 2
    /\ toolCallsMade = Len(executed) + 1

----------------------------------------------------------------------------
(* The session loop of main() *)

\* the turns with role 'user'
UserIdx == { i \in 1..Len(conversation_history) :
                 conversation_history[i].role = "user" }

\* C17: when process_query has raised under main(), the only step main()
\* takes is to print the error and return to the prompt, with the history
\* and both connections as the failed query left them; nothing is torn down;
\* and the query typed next is sent to the backend with the whole history,
\* the failed query's turns included.
C17_QueryErrorKeepsSession ==
    /\ [][(host = "cli" /\ mainpc = "query" /\ Aborted) =>
            /\ mainpc' = "input"
            /\ printed' = Cat3(<<NL, "Error", ":", SP>>, result.msg, <<NL>>)
            /\ UNCHANGED <<progVars, closeVars, ending>>]_vars
    /\ []((mainpc = "input" /\ result.kind = "raised") =>
            /\ ending = "none"
            /\ cleanups = 0 /\ CleanupIdle /\ closes = <<>>
            /\ session = "open" /\ llm_client = "open"
            /\ context_manager = "entered")
    /\ []((host = "cli" /\ pc = "chat" /\ llmCalls = 1 /\ prevKind = "raised") =>
            /\ histStart > 0
            /\ sent.messages = conversation_history
            /\ sent.messages[Len(sent.messages)] =
                   [role |-> "user", content |-> Strip(typed[1])]
            /\ session = "open" /\ llm_client = "open")

\* under main(), the first backend call of a query typed after a query that
\* failed in its second iteration
C17_Witness ==
    /\ host = "cli"
    /\ pc = "chat"
    /\ llmCalls = 1
    /\ prevKind = "raised"
    /\ histStart = 3
    /\ printed # <<>>

\* C18: an utterance is taken, and its 'user' turn appended, only when no
\* query is in flight: process_query is not running and the query before, if
\* any, has returned or raised; so the turns after the last 'user' turn are
\* those of the current query, and the history holds one 'user' turn per
\* query, each before all turns of the queries that follow.
C18_OneQueryAtATime ==
    /\ [][(queries' # queries \/ Cardinality(UserIdx') # Cardinality(UserIdx)) =>
            /\ pc = "idle"
            /\ result.kind \in {"none", "returned", "raised"}
            /\ mainpc \in {"input", "none"}
            /\ queries' = queries + 1
            /\ conversation_history' =
                   Append(conversation_history,
                          [role |-> "user", content |-> user_input'])]_vars
    /\ [](/\ Cardinality(UserIdx) = queries
          /\ queries > 0 => histStart + 1 \in UserIdx
          /\ \A i \in UserIdx : i <= histStart + 1)

\* under main(), a second query has ended after a first one that went
\* through a tool call
C18_Witness ==
    /\ host = "cli"
    /\ mainpc = "input"
    /\ Ended
    /\ queries = 2
    /\ histStart >= 4
    /\ executed # <<>>

----------------------------------------------------------------------------
(* The tool registry adapter and the backend client *)

\* entry i of the converted list carries descriptor i
Carries(entry, descriptor) ==
    /\ entry.type = "function"
    /\ entry.function.name = descriptor.name
    /\ entry.function.description = descriptor.description
    /\ entry.function.parameters = descriptor.inputSchema

\* C19: the tool list process_query converted from the cached descriptors
\* has one entry per descriptor, in the descriptors' order, each with the
\* descriptor's name, description and input schema, repeated descriptors
\* included; and so has the conversion of every list a provider can give.
C19_AdapterPreserves ==
    /\ (pc # "idle" /\ tools # <<>>) =>
          /\ Len(ollama_tools) = Len(tools)
          /\ \A i \in 1..Len(tools) : Carries(ollama_tools[i], tools[i])
    /\ \A l \in Listings :
          LET out == convert_mcp_tools_to_ollama_format(l)
          IN  /\ Len(out) = Len(l)
              /\ \A i \in 1..Len(l) : Carries(out[i], l[i])

\* a backend call is in flight with the tool list converted from two equal
\* descriptors
C19_Witness ==
    /\ pc = "chat"
    /\ Len(tools) = 2
    /\ tools[1] = tools[2]
    /\ Len(sent.tools) = 2
    /\ sent.tools[1] = sent.tools[2]

\* C20: every chat() call is one request: the requests of a query are as
\* many as its chat() calls, each answered by one response or, the last one,
\* by the failure that made process_query raise; the step that raises sends
\* nothing, and after it no request is made for the query.
C20_OneRequestNoRetry ==
    /\ [](/\ posts = llmCalls
          /\ llmCalls = Len(responses) +
                 (IF pc = "chat" \/ result.kind = "raised"
                     \/ (pc = "cancelled" /\ toolCallsMade = Len(executed))
                  THEN 1 ELSE 0))
    /\ [][(result'.kind = "raised" /\ result.kind # "raised") =>
            /\ pc = "chat" /\ pc' = "idle"
            /\ posts' = posts
            /\ llmCalls' = llmCalls
            /\ sent' = sent]_vars
    /\ [][(Aborted /\ pc' = pc) => posts' = posts /\ sent' = sent]_vars

\* a query aborted by the failure of its third backend call
C20_Witness ==
    /\ Aborted
    /\ posts = 3
    /\ Len(responses) = 2
    /\ result.why = "connect"

----------------------------------------------------------------------------
(* Order of the steps inside a query *)

\* mcp.call_tool calls that have not ended
InFlight == toolCallsMade - Len(executed)

\* C21: at most one call_tool is in flight; the calls made so far are the
\* first ones requested, in the order requested; a call is started only when
\* every call before it has ended and its 'tool' turn is the last turn of the
\* history; and a request is sent to the backend only when every call
\* requested so far has ended and has its 'tool' turn.
C21_SequentialDispatch ==
    /\ [](/\ InFlight \in {0, 1}
          /\ InFlight = 1 => pc \in {"tool", "cancelled"}
          /\ Len(executed) <= Len(requested)
          /\ \A j \in 1..Len(executed) : executed[j].call = requested[j])
    /\ [][toolCallsMade' = toolCallsMade + 1 =>
            /\ InFlight = 0
            /\ pc = "dispatch"
            /\ tool_calls[idx] = requested[toolCallsMade + 1]
            /\ idx > 1 =>
                   /\ executed[Len(executed)].at = Len(conversation_history)
                   /\ executed[Len(executed)].call = tool_calls[idx - 1]
                   /\ IsToolTurn(conversation_history[Len(conversation_history)])]_vars
    /\ [][posts' = posts + 1 =>
            /\ InFlight = 0
            /\ Len(executed) = Len(requested)
            /\ Cardinality(ToolIdx) = Len(requested)]_vars

\* the second call of a batch is in flight on a connected provider, after a
\* first call that failed
C21_Witness ==
    /\ pc = "tool"
    /\ idx = 2
    /\ InFlight = 1
    /\ executed[Len(executed)].outcome.raised
    /\ executed[Len(executed)].at = Len(conversation_history)

ArgsOf(call) == Get(Get(call, "function", EmptyDict), "arguments", PyDict(<<>>))

\* the provider answered the call with its report of a failure: the weather
\* service raised, the tool is unknown, or 'city' is missing
ProviderReportedFailure(e) ==
    /\ Answered(e)
    /\ e.reply.content = ServerCallTool(NameOf(e.call), ArgsOf(e.call), "notfound")

\* the text is JSON for an object with an 'error' field
IsJsonErrorObject(text) ==
    LET parsed == JsonLoads(text)
    IN  /\ parsed.ok
        /\ parsed.v.t = "dict"
        /\ \E i \in 1..Len(parsed.v.v) : parsed.v.v[i].k = <<"error">>

\* C22, as claimed: the 'tool' turn of every call for which the provider
\* reported a failure holds JSON text for an object with an 'error' field.
C22_ProviderFailureIsErrorTurn ==
    \A j \in 1..Len(executed) :
        ProviderReportedFailure(executed[j]) =>
            IsJsonErrorObject(conversation_history[executed[j].at].content)

\* the step records a response that requests tool calls
TakesToolResponse ==
    /\ Len(responses') = Len(responses) + 1
    /\ NumCalls(responses'[Len(responses')]) > 0

\* position in the history of the assistant turn of the batch being executed
BatchTurnAt == Len(conversation_history) - (Len(executed) - (Len(requested) - Len(tool_calls)))

\* C23: the step that takes a response with tool calls appends one turn, the
\* assistant turn with the response's content and all its calls in the
\* backend's order, and starts no call; while the batch is executed that turn
\* stands right before the batch's 'tool' turns; and a query has as many
\* assistant turns with tool_calls as it has such responses.
C23_CallTurnFirst ==
    /\ [][TakesToolResponse =>
            LET response == responses'[Len(responses')]
            IN  /\ conversation_history' =
                       Append(conversation_history,
                              [role |-> "assistant", content |-> ContentOf(response),
                               tool_calls |-> CallsOf(response)])
                /\ toolCallsMade' = toolCallsMade
                /\ executed' = executed
                /\ InFlight = 0
                /\ tool_calls' = CallsOf(response)]_vars
    /\ [](pc \in {"dispatch", "tool"} =>
            /\ BatchTurnAt > histStart
            /\ HasCalls(conversation_history[BatchTurnAt])
            /\ conversation_history[BatchTurnAt].role = "assistant"
            /\ conversation_history[BatchTurnAt].tool_calls = tool_calls
            /\ \A i \in BatchTurnAt + 1 .. Len(conversation_history) :
                   IsToolTurn(conversation_history[i]))
    /\ [](Cardinality({ i \in histStart + 1 .. Len(conversation_history) :
                            HasCalls(conversation_history[i]) })
            = Cardinality(ToolRounds))

\* the second of two calls of one response is about to be made: the assistant
\* turn lists both calls and one 'tool' turn follows it
C23_Witness ==
    /\ pc = "dispatch"
    /\ idx = 2
    /\ Len(tool_calls) = 2
    /\ tool_calls[1] # tool_calls[2]
    /\ BatchTurnAt = Len(conversation_history) - 1

\* C24: the request a chat() call posts carries the whole history as it
\* stands when the call is made, the turns of earlier queries first, and the
\* list converted from the cached descriptors, or no "tools" key when no
\* descriptors are cached.
C24_FullSnapshotAndTools ==
    pc = "chat" =>
        /\ sent.messages = conversation_history
        /\ Len(sent.messages) > histStart
        /\ sent.messages[histStart + 1] = [role |-> "user", content |-> user_input]
        /\ sent.model = model
        /\ sent.stream = FALSE
        /\ tools # <<>> => /\ "tools" \in DOMAIN sent
                           /\ sent.tools = convert_mcp_tools_to_ollama_format(tools)
        /\ tools = <<>> => "tools" \notin DOMAIN sent

\* the second chat() of a second query: the request holds the first query's
\* turns, the new user turn, an assistant turn with calls and its 'tool' turn
C24_Witness ==
    /\ pc = "chat"
    /\ queries = 2
    /\ histStart > 1
    /\ iteration = 2
    /\ Len(conversation_history) > histStart + 2
    /\ "tools" \in DOMAIN sent

----------------------------------------------------------------------------
(* A failed initialize() *)

\* main() caught the RuntimeError of initialize()
InitFailed == host = "cli" /\ ending = "fatal"

\* C25: once initialize() has failed under main(), no line is read, no query
\* is started, no chat() call is made and the history stays empty; main() does
\* nothing but tear down, and when it has ended cleanup() has run to its end,
\* the backend client's close attempted, and the exit status is 1.
C25_InitFailureIsFatal ==
    InitFailed =>
        /\ mainpc \in {"cleanup", "exited"}
        /\ typed = NoLine
        /\ queries = 0
        /\ pc = "idle"
        /\ sessionPosts = 0
        /\ posts = 0
        /\ toolCallsMade = 0
        /\ conversation_history = <<>>
        /\ tools = <<>>
        /\ \E stage \in InitStages :
               printed = Cat(<<"Fatal", SP, "error", ":", SP>>, InitErrorMsg(stage))
        /\ Exited => /\ cleanups = 1
                     /\ CleanupIdle
                     /\ Cardinality(ClosesOf("llm")) = 1
                     /\ ExitStatus = 1

\* main() has ended after the provider's handshake failed: the half-made
\* session and the provider process were both closed
C25_Witness ==
    /\ InitFailed
    /\ Exited
    /\ session = "unready"
    /\ Len(closes) = 3

----------------------------------------------------------------------------
(* Termination of a query *)

\* process_query returned the content of a response without tool calls
Done ==
    /\ pc = "idle"
    /\ result.kind = "returned"
    /\ responses # <<>>
    /\ NumCalls(responses[Len(responses)]) = 0
    /\ result.v = ContentOf(responses[Len(responses)])

\* process_query returned the apology after max_iterations tool rounds
ExhaustedApology == Exhausted /\ result = [kind |-> "returned", v |-> ApologyMsg]

\* the query was cut short from outside by an interrupt of main()
Cancelled == pc = "cancelled"

\* C26: a query that has started ends, as long as every chat() and call_tool
\* comes back, even with a backend that requests tools on every response: it
\* is Done, Exhausted or Aborted, and exactly one of the three (an interrupt
\* of main() is the one other way out of it).  A call in flight always has an
\* answer that can come back.
C26_QueryTerminates ==
    /\ (result.kind = "running") ~> (Ended \/ Cancelled)
    /\ [](Ended => /\ Done \/ ExhaustedApology \/ Aborted
                   /\ ~(Done /\ ExhaustedApology)
                   /\ ~(Done /\ Aborted)
                   /\ ~(ExhaustedApology /\ Aborted))
    /\ [](result.kind = "running" <=> pc \in {"loop", "chat", "dispatch", "tool"})
    /\ [](pc = "tool" => Replies # {})

\* the second query of a session with a backend that always asks for a tool
\* has ended Exhausted, after the first one did
C26_Witness ==
    /\ ExhaustedApology
    /\ queries = 2
    /\ prevKind = "returned"
    /\ Len(requested) = max_iterations
    /\ sessionPosts = 2 * max_iterations

----------------------------------------------------------------------------
(* The iteration budget *)

\* C27: every query starts with the counter at 0, whatever the query before
\* it did; the counter equals the number of chat() calls the query has made,
\* at most max_iterations; a session of q queries has made at most
\* max_iterations * q calls; and a query that follows an exhausted or aborted
\* one can use the whole budget again.
C27_BudgetPerQuery ==
    /\ [][queries' = queries + 1 => iteration' = 0 /\ posts' = 0
                                    /\ sessionPosts' = sessionPosts]_vars
    /\ [](pc \in {"loop", "chat", "dispatch", "tool"} => iteration = posts)
    /\ [](posts <= max_iterations)
    /\ [](sessionPosts <= max_iterations * queries)
    /\ []((queries = 2 /\ prevKind = "returned" /\ Exhausted) =>
              /\ posts = max_iterations
              /\ sessionPosts > max_iterations)

\* the second query of a session has made its max_iterations-th chat() call
\* after the first one ended exhausted: 2 * max_iterations calls in all
C27_Witness ==
    /\ queries = 2
    /\ pc = "chat"
    /\ iteration = max_iterations
    /\ sessionPosts = 2 * max_iterations

----------------------------------------------------------------------------
(* The shape of the history *)

\* Reading h from turn i on.  st says what came before: "start" nothing,
\* "open" a user turn or a complete group, "tools" an assistant turn with
\* calls of which n 'tool' turns are still to come, "closed" a final
\* assistant turn.
RECURSIVE WellShapedFrom(_, _, _, _)
WellShapedFrom(h, i, st, n) ==
    IF i > Len(h) THEN st \in {"start", "open", "closed"}
    ELSE LET turn == h[i]
         IN  CASE turn.role = "user" /\ ~HasCalls(turn) ->
                      /\ st \in {"start", "open", "closed"}
                      /\ WellShapedFrom(h, i + 1, "open", 0)
               [] turn.role = "assistant" /\ HasCalls(turn) ->
                      /\ st = "open"
                      /\ Len(turn.tool_calls) > 0
                      /\ WellShapedFrom(h, i + 1, "tools", Len(turn.tool_calls))
               [] IsToolTurn(turn) ->
                      /\ st = "tools"
                      /\ n > 0
                      /\ WellShapedFrom(h, i + 1, IF n = 1 THEN "open" ELSE "tools", n - 1)
               [] turn.role = "assistant" /\ ~HasCalls(turn) ->
                      /\ st = "open"
                      /\ WellShapedFrom(h, i + 1, "closed", 0)
               [] OTHER -> FALSE

WellShaped(h) == WellShapedFrom(h, 1, "start", 0)

\* C28: whenever no query is running (none was started yet, or process_query
\* has returned or raised), the history is a sequence of segments: a 'user'
\* turn, then groups of an assistant turn with tool_calls and one 'tool' turn
\* per call it lists, then at most one assistant turn without tool_calls; the
\* current query's segment starts right after the earlier ones.
C28_HistoryShape ==
    pc = "idle" =>
        /\ WellShaped(conversation_history)
        /\ WellShaped(SubSeq(conversation_history, 1, histStart))
        /\ Ended => WellShaped(QueryTurns)

\* a session's second query has returned after a response with two calls,
\* one of which failed; the first query was aborted
C28_Witness ==
    /\ Ended
    /\ queries = 2
    /\ prevKind = "raised"
    /\ result.kind = "returned"
    /\ \E i \in 1..Len(conversation_history) :
           /\ HasCalls(conversation_history[i])
           /\ Len(conversation_history[i].tool_calls) = 2
    /\ \E j \in 1..Len(executed) : executed[j].outcome.raised

====
